---- MODULE Spec2Model ----
(***************************************************************************)
(* Model of the AI-MONITOR repository.                                     *)
(*                                                                         *)
(* Part I   MonitoringService (ai_monitor/services/monitoring_service.py)  *)
(*          with the DataCollectionEngine it drives                        *)
(*          (ai_monitor/collectors/data_collector.py): an asyncio program  *)
(*          on one event loop.  A step of the model is one atomic segment  *)
(*          of a coroutine, from one real suspension point to the next.    *)
(*          The coroutines awaited inside MonitoringService._monitoring_   *)
(*          loop's for statement (_process_model_monitoring,               *)
(*          _check_model_drift, _check_performance_alerts, _get_*_data,    *)
(*          _save_drift_result, _create_*_alert) never await a pending     *)
(*          future (their data access is the synchronous                   *)
(*          `with get_db_context()`), so the event loop regains control    *)
(*          only at asyncio.sleep(60): a tick is one step.                 *)
(*          start_monitoring likewise runs to its end without suspending;  *)
(*          stop_monitoring suspends at `await self.monitoring_task` and   *)
(*          at `await self.collection_task`.                               *)
(*                                                                         *)
(* Part II  AIMonitorSDK (ai_monitor_sdk.py): a threaded program.  Callers *)
(*          run add_metrics on their own threads while the monitoring      *)
(*          thread runs _monitoring_loop; nothing is locked.  A step is    *)
(*          what the interpreter does without another thread being able to *)
(*          run in between: one call into deque/list C code, or a stretch  *)
(*          of code that touches no shared object.                         *)
(*                                                                         *)
(* Part III The drift detectors as functions of their two samples:         *)
(*          AdvancedDriftDetector.detect_drift (ai_monitor_sdk.py) and     *)
(*          DriftDetectionEngine.detect_feature_drift (drift_detector.py). *)
(*          What scipy.stats.ks_2samp and the PSI sum return is an input.  *)
(***************************************************************************)
EXTENDS Integers, Sequences, FiniteSets, TLC

(***************************************************************************)
(* Bounds of the model.                                                    *)
(***************************************************************************)
MaxTime == 3
MaxTasks == 2
MaxCeTasks == 2

(***************************************************************************)
(* Inputs.  drift_threshold is in hundredths (5 is 0.05), the clock and    *)
(* check_interval_minutes are in minutes.                                  *)
(***************************************************************************)
Models == {"m1", "m2"}
StartArgs == {<<5, 1>>, <<10, 2>>}
Stoppers == {"s1", "s2"}
Fates == {"no_drift", "drift", "skipped", "drift_error", "perf_error"}

None == -1
NoTask == 0
SleepMinutes == 1

VARIABLES
    active_monitors,   \* MonitoringService.active_monitors, in insertion order
    is_running,        \* MonitoringService.is_running
    monitoring_task,   \* MonitoringService.monitoring_task (NoTask is None)
    tasks,             \* the _monitoring_loop tasks ever created
    ce_is_running,     \* collection_engine.is_running
    ce_task,           \* collection_engine.collection_task
    ce_model_ids,      \* the model_ids list handed to _collection_loop
    ceTasks,           \* the _collection_loop tasks ever created
    stopCalls,         \* the stop_monitoring calls in progress
    now,               \* datetime.utcnow(), in minutes
    lastTick,          \* history: what the step just taken did, if a tick
    prevRun,           \* history: time of a model's last drift check since
                       \* its monitor was created
    removed,           \* history: models whose state stop_monitoring removed
    attempts           \* history, kept by the watched tick only: what became
                       \* of each drift check the last tick attempted

svcVars == <<active_monitors, is_running, monitoring_task, tasks, ce_is_running,
             ce_task, ce_model_ids, ceTasks, stopCalls, now, lastTick,
             prevRun, removed, attempts>>

(***************************************************************************)
(* AIMonitorSDK.  The clock of this part counts days.         *)
(***************************************************************************)
MaxClock == 3
MaxIngest == 2
MaxAlerts == 2
MaxThreads == 2

HistoryMaxLen == 10000
MinHistory == 50
MinBaseline == 30
MinFeatureValues == 10
RecentWindow == 20
MinCurrent == 5
BaselineWindowDays == 7
RetentionDays == 1
ManualWindow == 50
MinManualValues == 10

Callers == {"c1", "c2"}
ModelIds == {"model", "other"}
AccuracyInputs == {90}
PriorPoints == {0, 49}
NoThread == 0

VARIABLES
    sdk_model_id,      \* AIMonitorSDK.model_id
    metrics_history,   \* AIMonitorSDK.metrics_history (a deque)
    baseline_data,     \* AIMonitorSDK.baseline_data["accuracy"], <<>> if absent:
                       \* the points whose values make the reference sample
    active_alerts,     \* AIMonitorSDK.active_alerts
    alert_history,     \* alert_system.alert_history[sdk_model_id]
    monitoring_thread, \* AIMonitorSDK.monitoring_thread (NoThread is None)
    threads,           \* the monitoring threads ever created
    stop_event,        \* AIMonitorSDK.stop_monitoring (a threading.Event)
    calls,             \* the add_metrics calls in progress, per caller
    control,           \* the stop_real_time_monitoring call in progress
    clock,             \* datetime.utcnow(), in days
    ingest             \* history: the points held at the start, the add_metrics
                       \* calls made since, those of them that have returned
                       \* and those that were rejected for their model_id;
                       \* which of start_real_time_monitoring and
                       \* stop_real_time_monitoring was called last (kept
                       \* by the watched calls only)

sdkVars == <<sdk_model_id, metrics_history, baseline_data, active_alerts,
             alert_history, monitoring_thread, threads, stop_event, calls,
             control, clock, ingest>>

(***************************************************************************)
(* Drift detection.  Scores, p-values and thresholds are in hundredths.    *)
(***************************************************************************)
MaxSample == 11
MaxNaN == 1

MinKsValues == 10
Alpha == 5
PsiDriftLevel == 20

NaN == -2
Methods == {"ks_test", "psi", "chi2"}
KsOutputs == {[ks_stat |-> 10, p_value |-> 100], [ks_stat |-> 60, p_value |-> 5],
              [ks_stat |-> 90, p_value |-> 1]}
PsiOutputs == {0, 20, 35}
Thresholds == {1, 5, 10}

MaxEffectLen == 2
EffectValues == {0, 2, NaN}

\* Samples of accuracies in hundredths, the current one the reference one
\* moved by an offset.  HalfUnit is 0.5.
HalfUnit == 50
ShiftBase == 90
ShiftWidths == {1, 2}
ShiftOffsets == {0, 1, 40, -40}

VARIABLES
    reference_data,    \* the reference sample of the call
    current_data,      \* the current sample of the call
    method,            \* its method / algorithm argument
    threshold,         \* its threshold argument
    entry,             \* the entry point called: "sdk", "engine", "scheduled"
                       \* (_check_model_drift), or "none"
    outcome,           \* what the call returned or raised
    emitted,           \* the records _check_model_drift added to the database
    db_errors          \* the records the database refused (errors logged)

detVars == <<reference_data, current_data, method, threshold, entry, outcome,
             emitted, db_errors>>

MinBaselineRows == 10
MinCurrentRows == 5

VARIABLES
    manual,            \* what the last manual_drift_check returned or raised
    health             \* what the last get_model_health_score returned, and when

manVars == <<manual, health>>

(***************************************************************************)
(* The health score.  Scores are in hundredths of a point, rounded down;   *)
(* accuracies in hundredths, error rates in thousandths, latencies in tens *)
(* of milliseconds.                                                        *)
(***************************************************************************)
HealthMinHistory == 10
HealthWindow == 20
NeutralScore == 5000
FullScore == 10000
AlertPenalty == 1000
AlertDays == 1

HealthAccuracies == {None, 89, 90, NaN}
HealthErrorRates == {None, 0, 200}
HealthLatencies == {None, 0, 95, -30}
HealthPriorLens == {8, 9, 50}
HealthLastLens == {1, 20}
HealthEpoch == -2

(***************************************************************************)
(* Severity and alerts.  In this part scores, p-values and effect sizes    *)
(* are in thousandths.                                                     *)
(***************************************************************************)
PSignificant == 1
PHigh == 10
PMedium == 50
LargeEffect == 800
HighDriftScore == 300
MediumDriftScore == 200
PAbsent == 1000
EffectAbsent == 0

PValues == {0, 1, 9, 10, 49, 50}
EffectSizes == {800, 801}
DriftScores == {200, 201, 300, 301}
MetricTypes == {"accuracy", "latency"}
DefaultThresholds == [accuracy |-> [critical |-> 50, high |-> 30, medium |-> 20]]
ThresholdConfigs ==
    {DefaultThresholds,
     [accuracy |-> [critical |-> 500, high |-> 300, medium |-> 200]]}

VARIABLES
    drift_result,      \* the drift result given to the classifier
    alert_thresholds,  \* IntelligentAlertSystem.alert_thresholds
    made               \* the severity or the alert the last call produced

clsVars == <<drift_result, alert_thresholds, made>>

vars == <<svcVars, sdkVars, detVars, manVars, clsVars>>

otherThanSvc == <<sdkVars, detVars, manVars, clsVars, attempts>>
otherThanSdk == <<svcVars, detVars, manVars, clsVars>>
otherThanDet == <<svcVars, sdkVars, manVars, clsVars>>

(***************************************************************************)
(* active_monitors: a dict, kept as the sequence of its values in          *)
(* insertion order (each value holds its own key, model_id).               *)
(***************************************************************************)
MonitorConfig(model_id, drift_threshold, check_interval_minutes) ==
    [model_id |-> model_id,
     drift_threshold |-> drift_threshold,
     check_interval_minutes |-> check_interval_minutes,
     last_drift_check |-> None]

Keys(am) == [i \in 1..Len(am) |-> am[i].model_id]

KeySet(am) == {am[i].model_id : i \in 1..Len(am)}

IndexOf(am, m) == CHOOSE i \in 1..Len(am) : am[i].model_id = m

SetItem_Ignore(am, cfg) == am

SetItem(am, cfg) ==
    IF cfg.model_id \in KeySet(am)
    THEN [am EXCEPT ![IndexOf(am, cfg.model_id)] = cfg]
    ELSE Append(am, cfg)

DelItem_Keep(am, m) == am

DelItem(am, m) == SelectSeq(am, LAMBDA c : c.model_id # m)

(***************************************************************************)
(* One tick of _monitoring_loop.                                           *)
(***************************************************************************)
IsDue_Always(config, t) == TRUE

IsDue(config, t) ==
    \/ config.last_drift_check = None
    \/ t - config.last_drift_check >= config.check_interval_minutes

AfterCheck(config, t) == [config EXCEPT !.last_drift_check = t]

AfterAttempt_OnSuccess(config, t, fate) ==
    IF fate \in {"skipped", "drift_error"} THEN config ELSE AfterCheck(config, t)

\* What follows `await self._check_model_drift(model_id, config)`: the call
\* returns None also when it gave up for want of data or caught an exception,
\* and the assignment to last_drift_check comes next whatever it did.
AfterAttempt(config, t, fate) == AfterCheck(config, t)

\* _process_model_monitoring(model_id, config) at time t.  fate is what the
\* data and the database make of this evaluation: the drift check finds no
\* drift or drift, or returns early for insufficient data ("skipped"), or
\* raises inside _check_model_drift ("drift_error", caught and logged
\* there), or the performance check raises ("perf_error", caught and logged
\* in _check_performance_alerts).
ProcessModelMonitoring(config, t, fate) ==
    LET due == IsDue(config, t)
    IN  [config |-> IF due THEN AfterAttempt(config, t, fate) ELSE config,
         drift_ran |-> due,
         alerted |-> due /\ fate = "drift",
         failed |-> \/ due /\ fate = "drift_error"
                    \/ fate = "perf_error"]

AfterModelFailure_Abort(i, n) == n + 1

\* After a failure in the evaluation of the i-th of n models the for
\* statement goes on with the next one.
AfterModelFailure(i, n) == i + 1

RECURSIVE MonitoringLoopTick(_, _, _, _, _)
MonitoringLoopTick(am, i, t, fates, acc) ==
    IF i > Len(am)
    THEN [acc EXCEPT !.am = am]
    ELSE LET m == am[i].model_id
             r == ProcessModelMonitoring(am[i], t, fates[m])
             next == IF r.failed THEN AfterModelFailure(i, Len(am)) ELSE i + 1
         IN  MonitoringLoopTick(
                 [am EXCEPT ![i] = r.config], next, t, fates,
                 [acc EXCEPT
                    !.evaluated = @ \cup {m},
                    !.drift_ran = IF r.drift_ran THEN @ \cup {m} ELSE @,
                    !.alerted = IF r.alerted THEN @ \cup {m} ELSE @,
                    !.failed = IF r.failed THEN @ \cup {m} ELSE @])

NoAttempts == [m \in Models |-> "none"]

NoTick ==
    [ticked |-> FALSE, am |-> <<>>, evaluated |-> {}, drift_ran |-> {},
     alerted |-> {}, failed |-> {}, rechecked |-> {}]

(***************************************************************************)
(* Tasks.                                                                  *)
(***************************************************************************)
\* A task: its state, whether it was cancelled, when its sleep ends, and the
\* model whose evaluation it is in (None outside an evaluation).
NewTask == [st |-> "unborn", cancel |-> FALSE, wake |-> 0, at |-> None]

NextTaskId == CHOOSE t \in 1..(MaxTasks + 1) :
                 /\ t <= MaxTasks => tasks[t].st = "unborn"
                 /\ \A u \in 1..(t - 1) : tasks[u].st # "unborn"

NextCeTaskId == CHOOSE t \in 1..(MaxCeTasks + 1) :
                   /\ t <= MaxCeTasks => ceTasks[t].st = "unborn"
                   /\ \A u \in 1..(t - 1) : ceTasks[u].st # "unborn"

Cancel_Skip(ts, t) == ts

Cancel(ts, t) == IF t = NoTask THEN ts ELSE [ts EXCEPT ![t].cancel = TRUE]

Finish(ts, t) ==
    [ts EXCEPT ![t] = [st |-> "done", cancel |-> FALSE, wake |-> 0, at |-> None]]

IdleCall == [pc |-> "idle", awaiting |-> NoTask]

\* No task is inside a database call that does not return: the calls of
\* _get_baseline_data and _get_recent_data are synchronous, and while one
\* runs no coroutine of the event loop does.
EventLoopFree == \A t \in 1..MaxTasks : tasks[t].st # "hung"

\* A new call takes the first free frame.
FreeFrame(c) ==
    /\ stopCalls[c].pc = "idle"
    /\ c = "s2" => stopCalls["s1"].pc # "idle"

(***************************************************************************)
(* Init: the module-level MonitoringService() and DataCollectionEngine().  *)
(***************************************************************************)
SvcInit ==
    /\ active_monitors = <<>>
    /\ is_running = FALSE
    /\ monitoring_task = NoTask
    /\ tasks = [t \in 1..MaxTasks |-> NewTask]
    /\ ce_is_running = FALSE
    /\ ce_task = NoTask
    /\ ce_model_ids = <<>>
    /\ ceTasks = [t \in 1..MaxCeTasks |-> NewTask]
    /\ stopCalls = [c \in Stoppers |-> IdleCall]
    /\ now = 0
    /\ lastTick = NoTick
    /\ prevRun = [m \in Models |-> None]
    /\ removed = {}
    /\ attempts = NoAttempts

(***************************************************************************)
(* start_monitoring(model_id, drift_threshold, check_interval_minutes):    *)
(* runs to its end in one step (start_continuous_collection and            *)
(* _start_monitoring_loop only create a task).                             *)
(***************************************************************************)
StartMonitoring(m, th, iv) ==
    LET am == SetItem(active_monitors, MonitorConfig(m, th, iv))
    IN  /\ UNCHANGED otherThanSvc
        /\ EventLoopFree
        /\ ~ce_is_running => NextCeTaskId <= MaxCeTasks
        /\ ~is_running => NextTaskId <= MaxTasks
        /\ active_monitors' = am
        /\ IF ~ce_is_running
           THEN /\ ce_is_running' = TRUE
                /\ ce_task' = NextCeTaskId
                /\ ceTasks' = [ceTasks EXCEPT ![NextCeTaskId].st = "running"]
                /\ ce_model_ids' = Keys(am)
           ELSE UNCHANGED <<ce_is_running, ce_task, ceTasks, ce_model_ids>>
        /\ IF ~is_running
           THEN /\ is_running' = TRUE
                /\ monitoring_task' = NextTaskId
                /\ tasks' = [tasks EXCEPT ![NextTaskId].st = "ready"]
           ELSE UNCHANGED <<is_running, monitoring_task, tasks>>
        /\ prevRun' = [prevRun EXCEPT ![m] = None]
        /\ removed' = removed \ {m}
        /\ lastTick' = NoTick
        /\ UNCHANGED <<stopCalls, now>>

(***************************************************************************)
(* stop_monitoring(model_id), first segment: up to the return, or up to    *)
(* `await self.monitoring_task` in _stop_monitoring_loop.                  *)
(***************************************************************************)
StopMonitoring(c, m) ==
    LET am == IF m \in KeySet(active_monitors)
              THEN DelItem(active_monitors, m) ELSE active_monitors
    IN  /\ UNCHANGED otherThanSvc
        /\ EventLoopFree
        /\ FreeFrame(c)
        /\ active_monitors' = am
        /\ removed' = IF m \in KeySet(active_monitors)
                      THEN removed \cup {m} ELSE removed
        /\ IF am = <<>> /\ is_running
           THEN /\ is_running' = FALSE
                /\ tasks' = Cancel(tasks, monitoring_task)
                /\ stopCalls' = [stopCalls EXCEPT ![c] =
                      [pc |-> "awaitTask", awaiting |-> monitoring_task]]
           ELSE UNCHANGED <<is_running, tasks, stopCalls>>
        /\ lastTick' = NoTick
        /\ UNCHANGED <<monitoring_task, ce_is_running, ce_task, ce_model_ids,
                       ceTasks, now, prevRun>>

\* _stop_monitoring_loop resumes when the awaited loop task has finished and
\* calls collection_engine.stop_continuous_collection(), which returns at once
\* when the engine is not running and otherwise cancels the collection task
\* and awaits it.
StopAfterLoopTask(c) ==
    /\ UNCHANGED otherThanSvc
    /\ EventLoopFree
    /\ stopCalls[c].pc = "awaitTask"
    /\ \/ stopCalls[c].awaiting = NoTask
       \/ tasks[stopCalls[c].awaiting].st = "done"
    /\ IF ce_is_running
       THEN /\ ce_is_running' = FALSE
            /\ ceTasks' = Cancel(ceTasks, ce_task)
            /\ stopCalls' = [stopCalls EXCEPT ![c].pc = "awaitCollection",
                                              ![c].awaiting = ce_task]
       ELSE /\ stopCalls' = [stopCalls EXCEPT ![c] = IdleCall]
            /\ UNCHANGED <<ce_is_running, ceTasks>>
    /\ lastTick' = NoTick
    /\ UNCHANGED <<active_monitors, is_running, monitoring_task, tasks, ce_task,
                   ce_model_ids, now, prevRun, removed>>

\* stop_continuous_collection resumes when the collection task has finished,
\* closes the data sources and returns; so does stop_monitoring.
StopAfterCollectionTask(c) ==
    /\ UNCHANGED otherThanSvc
    /\ EventLoopFree
    /\ stopCalls[c].pc = "awaitCollection"
    /\ \/ stopCalls[c].awaiting = NoTask
       \/ ceTasks[stopCalls[c].awaiting].st = "done"
    /\ stopCalls' = [stopCalls EXCEPT ![c] = IdleCall]
    /\ lastTick' = NoTick
    /\ UNCHANGED <<active_monitors, is_running, monitoring_task, tasks,
                   ce_is_running, ce_task, ce_model_ids, ceTasks, now, prevRun,
                   removed>>

(***************************************************************************)
(* The _monitoring_loop task t runs from its start, or from the end of its *)
(* sleep, to its next asyncio.sleep(60): `while self.is_running`, then the *)
(* for statement over active_monitors.items().                             *)
(***************************************************************************)
Tick(t, fates) ==
    /\ EventLoopFree
    /\ tasks[t].st \in {"ready", "sleeping"}
    /\ ~tasks[t].cancel
    /\ tasks[t].st = "sleeping" => now >= tasks[t].wake
    /\ IF is_running
       THEN LET r == MonitoringLoopTick(active_monitors, 1, now, fates,
                        [NoTick EXCEPT !.ticked = TRUE])
            IN  /\ active_monitors' = r.am
                /\ lastTick' = [r EXCEPT
                      !.am = <<>>,
                      !.rechecked = {m \in r.drift_ran : prevRun[m] # None}]
                /\ prevRun' = [m \in Models |->
                                 IF m \in r.drift_ran THEN now ELSE prevRun[m]]
                /\ tasks' = [tasks EXCEPT ![t].st = "sleeping",
                                          ![t].wake = now + SleepMinutes]
       ELSE /\ tasks' = Finish(tasks, t)
            /\ lastTick' = NoTick
            /\ UNCHANGED <<active_monitors, prevRun>>
    /\ UNCHANGED <<is_running, monitoring_task, ce_is_running, ce_task,
                   ce_model_ids, ceTasks, stopCalls, now, removed>>

LoopStep(t, fates) ==
    /\ UNCHANGED otherThanSvc
    /\ Tick(t, fates)

\* The same step, with the fate of every drift check it attempts written
\* down ("none" for a model that is not Active or not due).
LoopStepWatched(t, fates) ==
    /\ UNCHANGED <<sdkVars, detVars, manVars, clsVars>>
    /\ Tick(t, fates)
    /\ attempts' =
          [m \in Models |->
             IF /\ is_running
                /\ m \in KeySet(active_monitors)
                /\ IsDue(active_monitors[IndexOf(active_monitors, m)], now)
             THEN fates[m] ELSE "none"]

\* A tick in which the evaluation of the k-th model never completes: the
\* database call of its drift check (the model being due) or of its
\* performance check does not return.  The calls are synchronous, so the task
\* stays in _process_model_monitoring and cannot be cancelled there.
LoopHangs(t, fates, k, where) ==
    /\ UNCHANGED otherThanSvc
    /\ EventLoopFree
    /\ tasks[t].st \in {"ready", "sleeping"}
    /\ ~tasks[t].cancel
    /\ tasks[t].st = "sleeping" => now >= tasks[t].wake
    /\ is_running
    /\ k \in 1..Len(active_monitors)
    /\ LET before == MonitoringLoopTick(SubSeq(active_monitors, 1, k - 1), 1, now,
                         fates, [NoTick EXCEPT !.ticked = TRUE])
           stuck == active_monitors[k]
           r == ProcessModelMonitoring(stuck, now, fates[stuck.model_id])
           ran == IF where = "perf" /\ r.drift_ran
                  THEN before.drift_ran \cup {stuck.model_id}
                  ELSE before.drift_ran
       IN  /\ where = "drift" => IsDue(stuck, now)
           /\ active_monitors' =
                 before.am
                 \o <<IF where = "perf" THEN r.config ELSE stuck>>
                 \o SubSeq(active_monitors, k + 1, Len(active_monitors))
           /\ lastTick' = [before EXCEPT
                 !.am = <<>>,
                 !.drift_ran = ran,
                 !.rechecked = {m \in ran : prevRun[m] # None}]
           /\ prevRun' = [m \in Models |-> IF m \in ran THEN now ELSE prevRun[m]]
           /\ tasks' = [tasks EXCEPT ![t].st = "hung", ![t].at = stuck.model_id]
    /\ UNCHANGED <<is_running, monitoring_task, ce_is_running, ce_task,
                   ce_model_ids, ceTasks, stopCalls, now, removed>>

\* A cancelled task gets CancelledError at its suspension point (or before
\* its first step) and finishes without another tick.
LoopCancelled(t) ==
    /\ UNCHANGED otherThanSvc
    /\ EventLoopFree
    /\ tasks[t].st \in {"ready", "sleeping"}
    /\ tasks[t].cancel
    /\ tasks' = Finish(tasks, t)
    /\ lastTick' = NoTick
    /\ UNCHANGED <<active_monitors, is_running, monitoring_task, ce_is_running,
                   ce_task, ce_model_ids, ceTasks, stopCalls, now, prevRun,
                   removed>>

CollectionCancelled(t) ==
    /\ UNCHANGED otherThanSvc
    /\ EventLoopFree
    /\ ceTasks[t].st = "running"
    /\ ceTasks[t].cancel
    /\ ceTasks' = Finish(ceTasks, t)
    /\ lastTick' = NoTick
    /\ UNCHANGED <<active_monitors, is_running, monitoring_task, tasks,
                   ce_is_running, ce_task, ce_model_ids, stopCalls, now, prevRun,
                   removed>>

\* The clock.  Coroutine segments take no time on the scale of minutes: time
\* passes only when nothing is ready to run.
Quiet ==
    /\ \A c \in Stoppers : stopCalls[c].pc = "idle"
    /\ \A t \in 1..MaxTasks :
          /\ tasks[t].st # "ready"
          /\ tasks[t].st = "sleeping" => ~tasks[t].cancel /\ tasks[t].wake > now
    /\ \A t \in 1..MaxCeTasks : ceTasks[t].st = "running" => ~ceTasks[t].cancel

Advance ==
    /\ UNCHANGED otherThanSvc
    /\ now < MaxTime
    /\ Quiet
    /\ now' = now + 1
    /\ lastTick' = NoTick
    /\ UNCHANGED <<active_monitors, is_running, monitoring_task, tasks,
                   ce_is_running, ce_task, ce_model_ids, ceTasks, stopCalls,
                   prevRun, removed>>

SvcNext ==
    \/ \E m \in Models, a \in StartArgs : StartMonitoring(m, a[1], a[2])
    \/ \E c \in Stoppers, m \in Models : StopMonitoring(c, m)
    \/ \E c \in Stoppers : StopAfterLoopTask(c)
    \/ \E c \in Stoppers : StopAfterCollectionTask(c)
    \/ \E t \in 1..MaxTasks, fates \in [Models -> Fates] : LoopStep(t, fates)
    \/ \E t \in 1..MaxTasks : LoopCancelled(t)
    \/ \E t \in 1..MaxCeTasks : CollectionCancelled(t)
    \/ Advance

(***************************************************************************)
(* Properties of MonitoringService.                                        *)
(***************************************************************************)
TickStep == lastTick'.ticked

\* C1: on every tick and for every Active model the drift check runs if and
\* only if the model was never checked or now - last_drift_check >=
\* check_interval; last_drift_check is the tick time after it ran; a model's
\* check is at least check_interval after its previous one since the monitor
\* was created; a model that is not due keeps its configuration.
C1_DriftCheckSchedule ==
    [][TickStep =>
        \A i \in 1..Len(active_monitors) :
            LET c == active_monitors[i]
                m == c.model_id
                ran == m \in lastTick'.drift_ran
            IN  /\ ran <=> \/ c.last_drift_check = None
                           \/ now - c.last_drift_check >= c.check_interval_minutes
                /\ ran => /\ active_monitors'[i].last_drift_check = now
                          /\ prevRun[m] # None =>
                                now - prevRun[m] >= c.check_interval_minutes
                /\ ~ran => active_monitors'[i] = c]_vars

\* A tick that checked a model for the second time and passed over a model
\* that was not due.
C1_Witness ==
    /\ lastTick.ticked
    /\ lastTick.rechecked # {}
    /\ lastTick.evaluated \ lastTick.drift_ran # {}

\* C2: a failure in the evaluation of one model neither ends the loop task nor
\* keeps any Active model from being evaluated on the same tick.
C2_FailureIsolated ==
    [][TickStep =>
        /\ lastTick'.evaluated = KeySet(active_monitors)
        /\ KeySet(active_monitors') = KeySet(active_monitors)
        /\ \A t \in 1..MaxTasks : tasks[t].st # "done" => tasks'[t].st # "done"
        /\ \E t \in 1..MaxTasks :
              tasks'[t] = [st |-> "sleeping", cancel |-> FALSE,
                           wake |-> now + SleepMinutes, at |-> None]]_vars

\* A tick in which the first model's evaluation failed and the second model
\* was evaluated after it.
C2_Witness ==
    /\ lastTick.ticked
    /\ Len(active_monitors) = 2
    /\ active_monitors[1].model_id \in lastTick.failed
    /\ active_monitors[2].model_id \in lastTick.evaluated

\* C3: while a model stays Active its stored drift_threshold and
\* check_interval are not overwritten and its last_drift_check is not reset,
\* whatever start_monitoring calls are made.
C3_StartIsIdempotent ==
    [][\A i \in 1..Len(active_monitors) : \A j \in 1..Len(active_monitors') :
          LET c == active_monitors[i]
              d == active_monitors'[j]
          IN  c.model_id = d.model_id =>
                 /\ d.drift_threshold = c.drift_threshold
                 /\ d.check_interval_minutes = c.check_interval_minutes
                 /\ c.last_drift_check # None => d.last_drift_check # None]_vars

FullyStopped ==
    /\ ~is_running
    /\ monitoring_task # NoTask => tasks[monitoring_task].st = "done"
    /\ ~ce_is_running
    /\ ce_task # NoTask => ceTasks[ce_task].st = "done"

NoStopInProgress == \A c \in Stoppers : stopCalls[c].pc = "idle"

\* C4: stop_monitoring on an Active model removes its state; when it leaves
\* other models Active the loop keeps running untouched, when it removes the
\* last one it clears is_running and cancels the loop task; and once every
\* stop_monitoring call has returned with no model Active, the loop is fully
\* stopped (is_running false, loop task finished, collection stopped and its
\* task finished).
C4_StopMonitoring ==
    /\ [](NoStopInProgress /\ active_monitors = <<>> => FullyStopped)
    /\ [][\A m \in Models :
            m \notin removed /\ m \in removed' =>
               /\ m \in KeySet(active_monitors)
               /\ m \notin KeySet(active_monitors')
               /\ is_running
               /\ active_monitors' # <<>> =>
                     /\ is_running'
                     /\ monitoring_task' = monitoring_task
                     /\ tasks' = tasks
                     /\ ~tasks[monitoring_task].cancel
                     /\ tasks[monitoring_task].st # "done"
               /\ active_monitors' = <<>> =>
                     /\ ~is_running'
                     /\ tasks'[monitoring_task].cancel]_vars

\* The last Active model was stopped after the loop had ticked, every call
\* has returned, and everything is stopped.
C4_Witness ==
    /\ NoStopInProgress
    /\ active_monitors = <<>>
    /\ \E m \in removed : prevRun[m] # None
    /\ monitoring_task # NoTask
    /\ ce_task # NoTask
    /\ FullyStopped

\* C5: no evaluation step of a model happens after stop_monitoring removed its
\* state: a tick evaluates, writes last_drift_check of and raises alerts for
\* models of active_monitors only, never a removed one, and a removed model
\* has no entry in active_monitors; the task that ticks is the current,
\* uncancelled loop task.
C5_NoEvaluationAfterStop ==
    /\ [](removed \cap KeySet(active_monitors) = {})
    /\ [][TickStep =>
            /\ lastTick'.evaluated \cap removed = {}
            /\ lastTick'.alerted \cap removed = {}
            /\ \A m \in removed : prevRun'[m] = prevRun[m]
            /\ \E t \in 1..MaxTasks :
                  /\ tasks'[t] # tasks[t]
                  /\ t = monitoring_task
                  /\ ~tasks[t].cancel]_vars

\* A tick evaluates the remaining model after a model that had been checked
\* before was stopped.
C5_Witness ==
    /\ lastTick.ticked
    /\ lastTick.evaluated # {}
    /\ \E m \in removed : prevRun[m] # None

\* The loop is running: is_running with a loop task that has not finished
\* and was not cancelled.
LoopIsRunning ==
    /\ is_running
    /\ monitoring_task # NoTask
    /\ tasks[monitoring_task].st \in {"ready", "sleeping"}
    /\ ~tasks[monitoring_task].cancel

\* C28: whenever no start_monitoring or stop_monitoring call is in progress,
\* the loop is running if and only if some model is Active; when it is, no
\* other loop task is alive, and when it is not, is_running is false.
C28_LoopRunsIffSomeModelActive ==
    NoStopInProgress
    => /\ LoopIsRunning <=> active_monitors # <<>>
       /\ active_monitors = <<>> => ~is_running
       /\ \A t \in 1..MaxTasks :
             tasks[t].st \in {"ready", "sleeping"} /\ ~tasks[t].cancel
             => t = monitoring_task

\* The loop runs on its second task for a model started after the last one
\* was stopped, every call having returned.
C28_Witness ==
    /\ NoStopInProgress
    /\ active_monitors # <<>>
    /\ removed # {}
    /\ monitoring_task = 2
    /\ tasks[1].st = "done"
    /\ LoopIsRunning

\* C34: on every tick, a model whose drift check was due and was skipped for
\* insufficient data or failed inside _check_model_drift has last_drift_check
\* set to the tick time like one whose check succeeded, and is then not due
\* again at any time before a full check_interval has elapsed; and no drift
\* check of a model is attempted less than check_interval after its
\* last_drift_check, whatever became of the attempt that wrote it.
C34_FailedCheckWaitsAnInterval ==
    [][TickStep =>
        \A i \in 1..Len(active_monitors) :
            LET c == active_monitors[i]
                m == c.model_id
                after == active_monitors'[i]
            IN  /\ m \in lastTick'.drift_ran /\ c.last_drift_check # None
                   => now - c.last_drift_check >= c.check_interval_minutes
                /\ m \in lastTick'.drift_ran
                   /\ attempts'[m] \in {"skipped", "drift_error"}
                   => /\ after.last_drift_check = now
                      /\ \A t \in now..(now + c.check_interval_minutes - 1) :
                            ~IsDue(after, t)]_vars

\* A tick at which a model with a check interval of two minutes was checked
\* again and the check failed, and another model's check was skipped.
C34_Witness ==
    /\ lastTick.ticked
    /\ \E i \in 1..Len(active_monitors) :
          /\ active_monitors[i].model_id \in lastTick.rechecked
          /\ attempts[active_monitors[i].model_id] = "drift_error"
          /\ active_monitors[i].check_interval_minutes = 2
          /\ active_monitors[i].last_drift_check = now
    /\ \E m \in lastTick.drift_ran : attempts[m] = "skipped"

\* The collection loop is at work: the engine is running and its task is alive
\* and not cancelled.
CollectionIsRunning ==
    /\ ce_is_running
    /\ ce_task # NoTask
    /\ ceTasks[ce_task].st = "running"
    /\ ~ceTasks[ce_task].cancel

\* C32: whenever no stop_monitoring call is in progress, the running
\* collection loop processes exactly the Active models: every model of
\* active_monitors is in its model_ids, also one started after collection
\* began, and a model stop_monitoring removed is not.
C32_CollectedAreTheActive ==
    NoStopInProgress /\ CollectionIsRunning
    => {ce_model_ids[i] : i \in 1..Len(ce_model_ids)} = KeySet(active_monitors)

\* C33: whenever the monitoring loop is running and no start_monitoring or
\* stop_monitoring call is in progress, the collection engine is running too.
C33_CollectionRunsWithTheLoop ==
    NoStopInProgress /\ LoopIsRunning => CollectionIsRunning

(***************************************************************************)
(* A model whose evaluation never completes.                               *)
(***************************************************************************)
HungAt(m) == \E t \in 1..MaxTasks : tasks[t].st = "hung" /\ tasks[t].at = m

\* C26: while the evaluation of one model does not complete, every other
\* Active model is still evaluated by a later tick (or its monitor is
\* stopped, or the time modelled ends).
C26_OthersAreStillEvaluated ==
    \A m \in Models :
        ((\E other \in Models \ {m} : HungAt(other))
         /\ m \in KeySet(active_monitors) /\ now < MaxTime)
        ~> \/ m \in lastTick.evaluated
           \/ m \notin KeySet(active_monitors)

(***************************************************************************)
(* Part II: AIMonitorSDK.                                                  *)
(***************************************************************************)
\* A ModelMetrics object: id is its identity (the points are numbered as
\* they are made), model_id, timestamp and accuracy its fields.
ModelMetrics(id, model_id, t, accuracy) ==
    [id |-> id, model_id |-> model_id, timestamp |-> t, accuracy |-> accuracy]

Accepts_Any(self_id, model_id) == TRUE

\* `if metrics.model_id != self.model_id: raise ValueError`
Accepts(self_id, model_id) == model_id = self_id

\* The timestamps a caller gives a point it makes at time t.
StampsAt(t) == {t}

\* deque(maxlen=10000).append
DequeAppend(h, x) ==
    IF Len(h) >= HistoryMaxLen THEN Append(Tail(h), x) ELSE Append(h, x)

LastN(h, n) == IF Len(h) <= n THEN h ELSE SubSeq(h, Len(h) - n + 1, Len(h))

Values(ms) == SelectSeq(ms, LAMBDA m : m.accuracy # None)

\* _update_baseline once its iteration over metrics_history has ended, at
\* time t.
UpdateBaseline(bd, h, t) ==
    LET cutoff_time == t - BaselineWindowDays
        baseline_metrics == SelectSeq(h, LAMBDA m : m.timestamp >= cutoff_time)
    IN  IF Len(baseline_metrics) < MinBaseline THEN bd
        ELSE IF Len(Values(baseline_metrics)) >= MinFeatureValues
             THEN Values(baseline_metrics)
             ELSE bd

\* Whether _check_real_time_drift gets as far as detect_drift for the feature
\* with enough values on both sides for the two-sample test to run.
Comparable(bd, h) ==
    /\ bd # <<>>
    /\ Len(Values(LastN(h, RecentWindow))) >= MinCurrent
    /\ Len(bd) >= MinFeatureValues
    /\ Len(Values(LastN(h, RecentWindow))) >= MinFeatureValues

DriftAlert(n, t) == [id |-> n, timestamp |-> t]

ExpireAlerts_Strict(alerts, t) ==
    SelectSeq(alerts, LAMBDA a : a.timestamp > t - RetentionDays)

\* [a for a in self.active_alerts if a.timestamp >= cutoff]
ExpireAlerts(alerts, t) ==
    SelectSeq(alerts, LAMBDA a : a.timestamp >= t - RetentionDays)

IdleAdd == [pc |-> "idle", stale |-> FALSE, alerts_generated |-> <<>>]

NewThread == [st |-> "unborn", filtered |-> <<>>, ticked |-> None]

NextThreadId == CHOOSE t \in 1..(MaxThreads + 1) :
                   /\ t <= MaxThreads => threads[t].st = "unborn"
                   /\ \A u \in 1..(t - 1) : threads[u].st # "unborn"

IsAlive(t) == t # NoThread /\ threads[t].st \in {"waiting", "store"}

Returned(c) ==
    /\ calls' = [calls EXCEPT ![c] = IdleAdd]
    /\ ingest' = [ingest EXCEPT !.returned = @ + 1]

Raised(c) ==
    /\ calls' = [calls EXCEPT ![c] = IdleAdd]
    /\ ingest' = ingest

SdkNew ==
    /\ sdk_model_id = "model"
    /\ baseline_data = <<>>
    /\ active_alerts = <<>>
    /\ alert_history = <<>>
    /\ monitoring_thread = NoThread
    /\ threads = [t \in 1..MaxThreads |-> NewThread]
    /\ stop_event = FALSE
    /\ calls = [c \in Callers |-> IdleAdd]
    /\ control = "idle"
    /\ clock = 0

\* AIMonitorSDK("model") after n earlier add_metrics calls, made at time 0
\* with an accuracy, none of which found drift.
SdkInit ==
    /\ SdkNew
    /\ \E n \in PriorPoints :
          /\ metrics_history = [i \in 1..n |-> ModelMetrics(i, "model", 0, 90)]
          /\ ingest = [prior |-> n, made |-> 0, returned |-> 0,
                      rejected |-> 0, last_control |-> "none"]

(***************************************************************************)
(* add_metrics(metrics), on the thread of caller c.                        *)
(***************************************************************************)
\* The model_id test and metrics_history.append(metrics).  The append
\* invalidates every iteration over the deque that is under way.
AddMetrics(c, mid, ts, accuracy) ==
    /\ UNCHANGED otherThanSdk
    /\ calls[c].pc = "idle"
    /\ ingest.made < MaxIngest
    /\ IF ~Accepts(sdk_model_id, mid)
       THEN /\ calls' = calls
            /\ ingest' = [ingest EXCEPT !.made = @ + 1, !.rejected = @ + 1]
            /\ UNCHANGED metrics_history
       ELSE /\ metrics_history' =
                  DequeAppend(metrics_history,
                              ModelMetrics(ingest.prior + ingest.made + 1, mid,
                                           ts, accuracy))
            /\ calls' = [d \in Callers |->
                  IF d = c THEN [calls[d] EXCEPT !.pc = "update"]
                  ELSE IF calls[d].pc = "iterating"
                       THEN [calls[d] EXCEPT !.stale = TRUE]
                       ELSE calls[d]]
            /\ ingest' = [ingest EXCEPT !.made = @ + 1]
    /\ UNCHANGED <<sdk_model_id, baseline_data, active_alerts, alert_history,
                   monitoring_thread, threads, stop_event, control, clock>>

\* _update_baseline up to the start of its list comprehension over
\* metrics_history.
UpdateBaselineBegin(c) ==
    /\ UNCHANGED otherThanSdk
    /\ calls[c].pc = "update"
    /\ calls' = [calls EXCEPT ![c].pc =
                    IF Len(metrics_history) < MinHistory
                    THEN "check" ELSE "iterating"]
    /\ UNCHANGED <<sdk_model_id, metrics_history, baseline_data, active_alerts,
                   alert_history, monitoring_thread, threads, stop_event,
                   control, clock, ingest>>

\* The end of that iteration: RuntimeError("deque mutated during iteration")
\* leaves add_metrics if another thread appended meanwhile; otherwise the
\* baseline is rebuilt.
UpdateBaselineEnd(c) ==
    /\ UNCHANGED otherThanSdk
    /\ calls[c].pc = "iterating"
    /\ IF calls[c].stale
       THEN /\ Raised(c)
            /\ UNCHANGED baseline_data
       ELSE /\ baseline_data' =
                  UpdateBaseline(baseline_data, metrics_history, clock)
            /\ calls' = [calls EXCEPT ![c].pc = "check"]
            /\ UNCHANGED ingest
    /\ UNCHANGED <<sdk_model_id, metrics_history, active_alerts, alert_history,
                   monitoring_thread, threads, stop_event, control, clock>>

\* _check_real_time_drift up to `if alerts_generated`.  is_drift is the
\* verdict of the two-sample test (scipy.stats.ks_2samp) at alpha 0.05 on the
\* reference sample and the recent values.  create_alert has put the alert
\* in alert_history when the callbacks on_drift_detected and
\* on_alert_created are called; callback_raises says that one of them raises,
\* which nothing catches: the exception leaves add_metrics.
CheckRealTimeDrift(c, is_drift, callback_raises) ==
    /\ UNCHANGED otherThanSdk
    /\ calls[c].pc = "check"
    /\ is_drift => /\ Comparable(baseline_data, metrics_history)
                   /\ Len(alert_history) < MaxAlerts
    /\ callback_raises => is_drift
    /\ IF is_drift
       THEN LET alert == DriftAlert(Len(alert_history) + 1, clock)
            IN  /\ alert_history' = Append(alert_history, alert)
                /\ IF callback_raises
                   THEN Raised(c)
                   ELSE /\ calls' = [calls EXCEPT
                                       ![c].pc = "extend",
                                       ![c].alerts_generated = <<alert>>]
                        /\ UNCHANGED ingest
       ELSE /\ Returned(c)
            /\ UNCHANGED alert_history
    /\ UNCHANGED <<sdk_model_id, metrics_history, baseline_data, active_alerts,
                   monitoring_thread, threads, stop_event, control, clock>>

\* self.active_alerts.extend(alerts_generated), and the return.
ExtendAlerts(c) ==
    /\ UNCHANGED otherThanSdk
    /\ calls[c].pc = "extend"
    /\ active_alerts' = active_alerts \o calls[c].alerts_generated
    /\ Returned(c)
    /\ UNCHANGED <<sdk_model_id, metrics_history, baseline_data, alert_history,
                   monitoring_thread, threads, stop_event, control, clock>>

(***************************************************************************)
(* start_real_time_monitoring, stop_real_time_monitoring.                  *)
(***************************************************************************)
\* start_real_time_monitoring returns at once ("Monitoreo ya está activo")
\* when the thread it holds is alive; otherwise it clears the event and
\* starts a new thread.
StartThread ==
    /\ UNCHANGED otherThanSdk
    /\ control = "idle"
    /\ IF IsAlive(monitoring_thread)
       THEN UNCHANGED <<stop_event, monitoring_thread, threads>>
       ELSE /\ NextThreadId <= MaxThreads
            /\ stop_event' = FALSE
            /\ monitoring_thread' = NextThreadId
            /\ threads' = [threads EXCEPT ![NextThreadId].st = "waiting"]
    /\ UNCHANGED <<sdk_model_id, metrics_history, baseline_data, active_alerts,
                   alert_history, calls, control, clock>>

StartRealTimeMonitoring ==
    /\ StartThread
    /\ UNCHANGED ingest

\* The same call, with the history of the control calls kept.
StartRealTimeMonitoringWatched ==
    /\ StartThread
    /\ ingest' = [ingest EXCEPT !.last_control = "start"]

StopThread ==
    /\ UNCHANGED otherThanSdk
    /\ control = "idle"
    /\ stop_event' = TRUE
    /\ control' = IF monitoring_thread # NoThread THEN "join" ELSE "idle"
    /\ UNCHANGED <<sdk_model_id, metrics_history, baseline_data, active_alerts,
                   alert_history, monitoring_thread, threads, calls, clock>>

StopRealTimeMonitoring ==
    /\ StopThread
    /\ UNCHANGED ingest

StopRealTimeMonitoringWatched ==
    /\ StopThread
    /\ ingest' = [ingest EXCEPT !.last_control = "stop"]

\* monitoring_thread.join(timeout=5) returns: the thread has ended, or it has
\* not within 5 seconds (it is in the middle of a tick).
JoinReturns ==
    /\ UNCHANGED otherThanSdk
    /\ control = "join"
    /\ threads[monitoring_thread].st \in {"dead", "store"}
    /\ control' = "idle"
    /\ UNCHANGED <<sdk_model_id, metrics_history, baseline_data, active_alerts,
                   alert_history, monitoring_thread, threads, stop_event, calls,
                   clock, ingest>>

(***************************************************************************)
(* _monitoring_loop on thread t.                                           *)
(***************************************************************************)
\* stop_monitoring.wait(interval) returns: True ends the loop; False starts a
\* tick, which evaluates the health score (it changes nothing), computes the
\* cutoff and builds the list of the alerts to keep.
LoopWakes(t) ==
    /\ UNCHANGED otherThanSdk
    /\ threads[t].st = "waiting"
    /\ threads' = [threads EXCEPT ![t] =
          IF stop_event
          THEN [st |-> "dead", filtered |-> <<>>, ticked |-> None]
          ELSE [@ EXCEPT !.st = "store",
                         !.filtered = ExpireAlerts(active_alerts, clock)]]
    /\ UNCHANGED <<sdk_model_id, metrics_history, baseline_data, active_alerts,
                   alert_history, monitoring_thread, stop_event, calls, control,
                   clock, ingest>>

\* self.active_alerts = <the list built>
LoopStores(t) ==
    /\ UNCHANGED otherThanSdk
    /\ threads[t].st = "store"
    /\ active_alerts' = threads[t].filtered
    /\ threads' = [threads EXCEPT ![t] =
          [st |-> "waiting", filtered |-> <<>>, ticked |-> clock]]
    /\ UNCHANGED <<sdk_model_id, metrics_history, baseline_data, alert_history,
                   monitoring_thread, stop_event, calls, control, clock, ingest>>

\* The clock.  Calls and ticks take no time on the scale of days, and a
\* running loop ticks every monitoring_interval (300 s): every clock value
\* sees a tick of each live loop.
SdkQuiet ==
    /\ \A c \in Callers : calls[c].pc = "idle"
    /\ control = "idle"
    /\ \A t \in 1..MaxThreads :
          /\ threads[t].st # "store"
          /\ threads[t].st = "waiting" => ~stop_event /\ threads[t].ticked = clock

ClockAdvances ==
    /\ UNCHANGED otherThanSdk
    /\ clock < MaxClock
    /\ SdkQuiet
    /\ clock' = clock + 1
    /\ UNCHANGED <<sdk_model_id, metrics_history, baseline_data, active_alerts,
                   alert_history, monitoring_thread, threads, stop_event, calls,
                   control, ingest>>

\* add_metrics alone, with points of either model_id and callbacks that may
\* raise.
IngestNext ==
    \/ \E c \in Callers, mid \in ModelIds, ts \in StampsAt(clock),
          accuracy \in AccuracyInputs : AddMetrics(c, mid, ts, accuracy)
    \/ \E c \in Callers : UpdateBaselineBegin(c)
    \/ \E c \in Callers : UpdateBaselineEnd(c)
    \/ \E c \in Callers, is_drift \in BOOLEAN, callback_raises \in BOOLEAN :
          CheckRealTimeDrift(c, is_drift, callback_raises)
    \/ \E c \in Callers : ExtendAlerts(c)
    \/ ClockAdvances

\* The monitor in use: the points are the model's and the callbacks return.
SdkNext ==
    \/ \E c \in Callers, ts \in StampsAt(clock), accuracy \in AccuracyInputs :
          AddMetrics(c, sdk_model_id, ts, accuracy)
    \/ \E c \in Callers : UpdateBaselineBegin(c)
    \/ \E c \in Callers : UpdateBaselineEnd(c)
    \/ \E c \in Callers, is_drift \in BOOLEAN :
          CheckRealTimeDrift(c, is_drift, FALSE)
    \/ \E c \in Callers : ExtendAlerts(c)
    \/ StartRealTimeMonitoring
    \/ StopRealTimeMonitoring
    \/ JoinReturns
    \/ \E t \in 1..MaxThreads : LoopWakes(t)
    \/ \E t \in 1..MaxThreads : LoopStores(t)
    \/ ClockAdvances

(***************************************************************************)
(* Claims about AIMonitorSDK.                                              *)
(***************************************************************************)
Min(a, b) == IF a <= b THEN a ELSE b

NoCallInProgress == \A c \in Callers : calls[c].pc = "idle"

\* C6: with several callers in add_metrics at once, whenever no call is in
\* progress the number of points in metrics_history is the number held at the
\* start plus the number of add_metrics calls that returned, up to the cap of
\* 10000: every stored point belongs to a call that returned.
C6_HistoryCountsReturnedCalls ==
    NoCallInProgress =>
        Len(metrics_history) =
            Min(HistoryMaxLen, ingest.prior + ingest.returned)

\* C7: no step removes from active_alerts an alert younger than 24 hours,
\* whatever add_metrics and the monitoring loop do at the same time.
C7_NoYoungAlertLost ==
    [][\A i \in 1..Len(active_alerts) :
          clock - active_alerts[i].timestamp < RetentionDays
          => \E j \in 1..Len(active_alerts') :
                active_alerts'[j] = active_alerts[i]]_vars

PositionIn(alerts, a) == CHOOSE i \in 1..Len(alerts) : alerts[i] = a

\* kept is alerts without its members older than the retention horizon at
\* time t, in the same order.
IsYoungPartOf(kept, alerts, t) ==
    /\ \A i \in 1..Len(kept) :
          /\ \E j \in 1..Len(alerts) : alerts[j] = kept[i]
          /\ t - kept[i].timestamp <= RetentionDays
    /\ \A j \in 1..Len(alerts) :
          t - alerts[j].timestamp <= RetentionDays
          => \E i \in 1..Len(kept) : kept[i] = alerts[j]
    /\ \A i, k \in 1..Len(kept) :
          i < k => PositionIn(alerts, kept[i]) < PositionIn(alerts, kept[k])

\* C8: a tick of the SDK monitoring loop reads active_alerts, keeps of it
\* exactly the alerts whose timestamp is not older than 24 hours, in the same
\* order, and ends by making that list active_alerts.
C8_TickKeepsExactlyTheYoung ==
    [][\A t \in 1..MaxThreads :
          /\ threads[t].st = "waiting" /\ threads'[t].st = "store"
             => IsYoungPartOf(threads'[t].filtered, active_alerts, clock)
          /\ threads[t].st = "store" /\ threads'[t].st = "waiting"
             => /\ active_alerts' = threads[t].filtered
                /\ \A i \in 1..Len(active_alerts') :
                      clock - active_alerts'[i].timestamp <= RetentionDays]_vars

\* A tick has just ended that dropped the first alert ever created, older than
\* the horizon, and kept the second, whose age is exactly the horizon.
C8_Witness ==
    /\ \E t \in 1..MaxThreads :
          threads[t].st = "waiting" /\ threads[t].ticked = clock
    /\ Len(alert_history) = 2
    /\ active_alerts = <<alert_history[2]>>
    /\ clock - alert_history[1].timestamp > RetentionDays
    /\ clock - alert_history[2].timestamp = RetentionDays

\* C9: active_alerts never holds an alert that is older than the 24-hour
\* retention horizon for longer than the loop takes to come round (one unit of
\* the clock), whether start_real_time_monitoring was called or not.
C9_OldAlertsAreEvicted ==
    \A i \in 1..Len(active_alerts) :
        clock - active_alerts[i].timestamp <= RetentionDays + 1

\* The identities of the points ms.
Ids(ms) == {ms[i].id : i \in 1..Len(ms)}

\* C35: whenever an add_metrics call is about to compare the recent points
\* with the reference sample (a baseline exists and at least 5 of the last 20
\* points have a value), no recent point is one of the points the reference
\* sample was built from.
C35_SamplesAreDisjoint ==
    \A c \in Callers :
        /\ calls[c].pc = "check"
        /\ baseline_data # <<>>
        /\ Len(Values(LastN(metrics_history, RecentWindow))) >= MinCurrent
        => Ids(Values(LastN(metrics_history, RecentWindow)))
              \cap Ids(baseline_data) = {}

Members(alerts) == {alerts[i] : i \in 1..Len(alerts)}

\* C36: on the step by which an add_metrics call ends, by returning or by
\* raising, every alert the call recorded in alert_history (the one it is
\* carrying to active_alerts, or the one it records on that very step) is in
\* active_alerts.
C36_RecordedAlertsAreActive ==
    [][\A c \in Callers :
          calls[c].pc # "idle" /\ calls'[c].pc = "idle"
          => Members(calls[c].alerts_generated)
                \cup (Members(alert_history') \ Members(alert_history))
             \subseteq Members(active_alerts')]_vars

\* C38: an add_metrics call with a point of another model_id is rejected: the
\* step leaves metrics_history, baseline_data, active_alerts and alert_history
\* as they are, the call does not go on to the real-time check (where the
\* callbacks are invoked) and does not return; and metrics_history only ever
\* holds points of the monitor's own model_id, so no such call is accepted.
C38_ForeignPointIsRejected ==
    /\ [](\A i \in 1..Len(metrics_history) :
             metrics_history[i].model_id = sdk_model_id)
    /\ [][ingest'.rejected # ingest.rejected
          => /\ UNCHANGED <<metrics_history, baseline_data, active_alerts,
                            alert_history, calls>>
             /\ ingest'.returned = ingest.returned]_vars

\* A call with a foreign point has been rejected while the other caller was
\* inside add_metrics with a point of the model, after a baseline was built.
C38_Witness ==
    /\ ingest.rejected > 0
    /\ baseline_data # <<>>
    /\ \E c \in Callers : calls[c].pc # "idle"

\* C39: while the last call of start_real_time_monitoring and
\* stop_real_time_monitoring is a start that has returned, the thread the
\* monitor holds is alive and the stop event is clear, so that the loop goes
\* on ticking; this after every sequence of the two calls, a start that
\* follows a stop whose join timed out included.
C39_StartLeavesALoopRunning ==
    ingest.last_control = "start"
    => /\ IsAlive(monitoring_thread)
       /\ ~stop_event

\* C27: once stop_real_time_monitoring has returned (and until monitoring is
\* started again) no monitoring thread is alive: none is in a tick or will
\* start one.
C27_NoThreadAfterStop ==
    stop_event /\ control = "idle"
    => \A t \in 1..MaxThreads : threads[t].st \in {"unborn", "dead"}

(***************************************************************************)
(* Part III: drift detection.                                              *)
(***************************************************************************)
\* A sample of n numbers followed by k NaNs.
SampleOf(n, k) == [i \in 1..(n + k) |-> IF i <= n THEN 1 ELSE NaN]

\* a[~np.isnan(a)]
Clean(a) == SelectSeq(a, LAMBDA x : x # NaN)

HasNaN(a) == \E i \in 1..Len(a) : a[i] = NaN

RECURSIVE Sum(_)
Sum(a) == IF a = <<>> THEN 0 ELSE Head(a) + Sum(Tail(a))

RECURSIVE SumSq(_)
SumSq(a) == IF a = <<>> THEN 0 ELSE Head(a) * Head(a) + SumSq(Tail(a))

\* np.var(a) times len(a) squared, for a sample of numbers.
VarN2(a) == Len(a) * SumSq(a) - Sum(a) * Sum(a)

\* An effect size is held as its square, the fraction num / den.
ZeroEffect == [num |-> 0, den |-> 1]

\* pooled_std = sqrt((var(r) + var(c)) / 2);
\* abs(mean(r) - mean(c)) / pooled_std if pooled_std > 0 else 0.
\* The mean and the variance of an empty sample or of one holding a NaN are
\* nan, and nan > 0 is False.  With n = len(r), m = len(c), pooled is
\* pooled_std squared times 2 n^2 m^2 and diff the difference of the means
\* times n m.
CohensD(r, c) ==
    IF Len(r) = 0 \/ Len(c) = 0 \/ HasNaN(r) \/ HasNaN(c)
    THEN ZeroEffect
    ELSE LET pooled == VarN2(r) * Len(c) * Len(c) + VarN2(c) * Len(r) * Len(r)
             diff == Sum(r) * Len(c) - Sum(c) * Len(r)
         IN  IF pooled > 0
             THEN [num |-> 2 * diff * diff, den |-> pooled]
             ELSE ZeroEffect

NotCalled == [kind |-> "none"]

Result(drift_score, p_value, is_drift_detected, effect_size, th) ==
    [kind |-> "result", drift_score |-> drift_score, p_value |-> p_value,
     is_drift_detected |-> is_drift_detected, effect_size |-> effect_size,
     threshold |-> th]

Raises(error) == [kind |-> "error", error |-> error]

MinOf(a) ==
    CHOOSE x \in {a[i] : i \in 1..Len(a)} : \A i \in 1..Len(a) : x <= a[i]

MaxOf(a) ==
    CHOOSE x \in {a[i] : i \in 1..Len(a)} : \A i \in 1..Len(a) : x >= a[i]

\* Two samples of numbers whose value ranges do not meet.
Separated(r, c) ==
    /\ r # <<>> /\ c # <<>>
    /\ MaxOf(c) < MinOf(r) \/ MaxOf(r) < MinOf(c)

\* stats.ks_2samp(r, c) on two samples of numbers.  Between separated samples
\* the empirical distribution functions differ by 1, and the p-value of that
\* statistic is 2 / C(n + m, n): below 0.00002 when both samples have 10
\* values or more, 0 in hundredths.  On other samples ks is what it returns.
Ks2Samp(r, c, ks) ==
    IF Separated(r, c) /\ Len(r) >= MinKsValues /\ Len(c) >= MinKsValues
    THEN [ks_stat |-> 100, p_value |-> 0]
    ELSE ks

KolmogorovSmirnovTest_Loose(reference, current, alpha, ks) ==
    IF Len(Clean(reference)) < MinKsValues \/ Len(Clean(current)) < MinKsValues
    THEN [ks_stat |-> 0, p_value |-> 100, is_drift |-> FALSE]
    ELSE LET t == Ks2Samp(Clean(reference), Clean(current), ks)
         IN  [ks_stat |-> t.ks_stat, p_value |-> t.p_value,
              is_drift |-> t.p_value <= alpha]

\* AdvancedDriftDetector.kolmogorov_smirnov_test; ks is what ks_2samp returns
\* on the cleaned samples when they are not separated.
KolmogorovSmirnovTest(reference, current, alpha, ks) ==
    IF Len(Clean(reference)) < MinKsValues \/ Len(Clean(current)) < MinKsValues
    THEN [ks_stat |-> 0, p_value |-> 100, is_drift |-> FALSE]
    ELSE LET t == Ks2Samp(Clean(reference), Clean(current), ks)
         IN  [ks_stat |-> t.ks_stat, p_value |-> t.p_value,
              is_drift |-> t.p_value < alpha]

\* The outer bin edges np.histogram(reference, bins=10) returns: the least
\* and the greatest value, moved apart by 0.5 each when they are equal.
BinRange(reference) ==
    LET lo == MinOf(reference)
        hi == MaxOf(reference)
    IN  IF lo = hi THEN [lo |-> lo - HalfUnit, hi |-> hi + HalfUnit]
        ELSE [lo |-> lo, hi |-> hi]

\* sum(np.histogram(a, bins=bin_edges)[0]): the values of a between the outer
\* edges, both included; values outside them, and NaNs, are in no bin.
Mass(a, edges) ==
    Len(SelectSeq(a, LAMBDA x : x # NaN /\ edges.lo <= x /\ x <= edges.hi))

\* AdvancedDriftDetector.population_stability_index; psi is the value of the
\* PSI sum when both histograms have mass.  np.histogram rejects a reference
\* holding a NaN (its range is not finite); with density=True a histogram
\* without mass is counts / 0, nan in every bin, and so is the sum.
PopulationStabilityIndex(reference, current, psi) ==
    IF HasNaN(reference)
    THEN Raises("ValueError: range is not finite")
    ELSE IF Len(reference) = 0
         THEN [kind |-> "psi", psi_score |-> NaN]
         ELSE IF Mass(current, BinRange(reference)) = 0
              THEN [kind |-> "psi", psi_score |-> NaN]
              ELSE [kind |-> "psi", psi_score |-> psi]

DetectDrift_PsiByThreshold(reference, current, m, th, ks, psi) ==
    IF m = "ks_test"
    THEN LET t == KolmogorovSmirnovTest(reference, current, th, ks)
         IN  Result(t.ks_stat, t.p_value, t.is_drift,
                    CohensD(reference, current), th)
    ELSE IF m = "psi"
         THEN LET s == PopulationStabilityIndex(reference, current, psi)
              IN  IF s.kind = "error" THEN s
                  ELSE Result(s.psi_score, None, s.psi_score > th, None, th)
         ELSE Raises("ValueError: unsupported method")

\* AdvancedDriftDetector.detect_drift(feature_name, reference, current, m, th).
\* The effect size is computed on the arguments as they are passed.
\* nan > 0.2 is False (NaN is below every score).
DetectDrift(reference, current, m, th, ks, psi) ==
    IF m = "ks_test"
    THEN LET t == KolmogorovSmirnovTest(reference, current, th, ks)
         IN  Result(t.ks_stat, t.p_value, t.is_drift,
                    CohensD(reference, current), th)
    ELSE IF m = "psi"
         THEN LET s == PopulationStabilityIndex(reference, current, psi)
              IN  IF s.kind = "error" THEN s
                  ELSE Result(s.psi_score, None, s.psi_score > PsiDriftLevel,
                              None, PsiDriftLevel)
         ELSE Raises("ValueError: unsupported method")

\* KolmogorovSmirnovDrift.detect_drift
KsDetectDrift(reference, current, th, ks) ==
    IF Len(Clean(reference)) = 0 \/ Len(Clean(current)) = 0
    THEN Raises("ValueError: insufficient data")
    ELSE LET t == Ks2Samp(Clean(reference), Clean(current), ks)
         IN  Result(t.ks_stat, t.p_value, t.p_value < th,
                    CohensD(Clean(reference), Clean(current)), th)

\* DriftDetectionEngine.detect_feature_drift
DetectFeatureDrift(reference, current, algorithm, th, ks) ==
    IF algorithm # "ks_test"
    THEN Raises("KeyError")
    ELSE KsDetectDrift(reference, current, th, ks)

DetIdle ==
    /\ reference_data = <<>>
    /\ current_data = <<>>
    /\ method = "ks_test"
    /\ threshold = Alpha
    /\ entry = "none"
    /\ outcome = NotCalled
    /\ emitted = <<>>
    /\ db_errors = {}

DetInit ==
    /\ \E n \in 0..MaxSample, k \in 0..MaxNaN : reference_data = SampleOf(n, k)
    /\ \E n \in 0..MaxSample, k \in 0..MaxNaN : current_data = SampleOf(n, k)
    /\ method \in Methods
    /\ threshold \in Thresholds
    /\ entry = "none"
    /\ outcome = NotCalled
    /\ emitted = <<>>
    /\ db_errors = {}

\* Short samples of numbers and NaNs, compared by the two-sample test.
EffectSamples == UNION {[1..n -> EffectValues] : n \in 0..MaxEffectLen}

EffectInit ==
    /\ reference_data \in EffectSamples
    /\ current_data \in EffectSamples
    /\ method = "ks_test"
    /\ threshold = Alpha
    /\ entry = "none"
    /\ outcome = NotCalled
    /\ emitted = <<>>
    /\ db_errors = {}

\* n accuracies going up from base by steps of 0.01 and starting again after
\* width steps.
Ramp(n, base, width) == [i \in 1..n |-> base + (i % (width + 1))]

Shifted(a, offset) == [i \in 1..Len(a) |-> a[i] + offset]

\* A reference sample of at least 10 accuracies around 0.90 and a current
\* sample of the same shape moved by an offset.
ShiftInit ==
    /\ \E n \in MinKsValues..MaxSample, w \in ShiftWidths :
          reference_data = Ramp(n, ShiftBase, w)
    /\ \E n \in MinKsValues..MaxSample, w \in ShiftWidths, d \in ShiftOffsets :
          current_data = Shifted(Ramp(n, ShiftBase, w), d)
    /\ method \in {"ks_test", "psi"}
    /\ threshold \in Thresholds
    /\ entry = "none"
    /\ outcome = NotCalled
    /\ emitted = <<>>
    /\ db_errors = {}

SdkDetects(ks, psi) ==
    /\ UNCHANGED otherThanDet
    /\ outcome = NotCalled
    /\ outcome' = DetectDrift(reference_data, current_data, method, threshold,
                              ks, psi)
    /\ entry' = "sdk"
    /\ UNCHANGED <<reference_data, current_data, method, threshold, emitted,
                   db_errors>>

EngineDetects(ks) ==
    /\ UNCHANGED otherThanDet
    /\ outcome = NotCalled
    /\ outcome' = DetectFeatureDrift(reference_data, current_data, method,
                                     threshold, ks)
    /\ entry' = "engine"
    /\ UNCHANGED <<reference_data, current_data, method, threshold, emitted,
                   db_errors>>

DetNext ==
    \/ \E ks \in KsOutputs, psi \in PsiOutputs : SdkDetects(ks, psi)
    \/ \E ks \in KsOutputs : EngineDetects(ks)

(***************************************************************************)
(* Claims about drift detection.                                           *)
(***************************************************************************)
\* C10: a drift detection call in which either sample has fewer than 10
\* values after cleaning ends in an error; it returns no result, and so none
\* that says is_drift = false.
C10_SmallSamplesAreRejected ==
    /\ outcome # NotCalled
    /\ \/ Len(Clean(reference_data)) < MinKsValues
       \/ Len(Clean(current_data)) < MinKsValues
    => outcome.kind = "error"

\* The error of an unknown algorithm name: the ValueError of
\* AdvancedDriftDetector.detect_drift.
InvalidAlgorithm == Raises("ValueError: unsupported method")

\* C12: a detection call with an algorithm name that no entry point supports
\* ends in the InvalidAlgorithm error, the same one at every entry point, and
\* returns no result.
C12_UnknownAlgorithmIsRejectedAlike ==
    outcome # NotCalled /\ method \notin {"ks_test", "psi"}
    => outcome = InvalidAlgorithm

\* C18: a PSI result of detect_drift says is_drift exactly when psi > 0.2 and
\* reports the threshold 0.2; it is a result the same call returns with the
\* default threshold argument, whatever threshold the caller passed.
C18_PsiIgnoresThreshold ==
    entry = "sdk" /\ method = "psi" /\ outcome.kind = "result"
    => /\ outcome.threshold = 20
       /\ outcome.is_drift_detected = (outcome.drift_score > 20)
       /\ \E ks \in KsOutputs, psi \in PsiOutputs :
             outcome = DetectDrift(reference_data, current_data, "psi", Alpha,
                                   ks, psi)

\* A PSI call with threshold 0.10 has returned a result whose score is
\* exactly 0.2: no drift.
C18_Witness ==
    /\ entry = "sdk" /\ method = "psi" /\ outcome.kind = "result"
    /\ threshold = 10
    /\ outcome.drift_score = 20
    /\ ~outcome.is_drift_detected

\* C19: a result of the two-sample test, from either entry point, says
\* is_drift exactly when its p_value is strictly below the caller's threshold,
\* and records that threshold.
C19_KsDriftIffBelowThreshold ==
    method = "ks_test" /\ outcome.kind = "result"
    => /\ outcome.is_drift_detected = (outcome.p_value < threshold)
       /\ outcome.threshold = threshold

\* detect_drift has run the test on two samples of at least 10 values and got
\* a p_value equal to the threshold: no drift.
C19_Witness ==
    /\ entry = "sdk" /\ method = "ks_test" /\ outcome.kind = "result"
    /\ Len(Clean(reference_data)) >= MinKsValues
    /\ Len(Clean(current_data)) >= MinKsValues
    /\ outcome.p_value = threshold
    /\ ~outcome.is_drift_detected

\* C20: the effect size of a result of the two-sample test is defined (no
\* division by zero, no NaN); with r and c the samples compared (the cleaned
\* ones), it is |mean(r) - mean(c)| / pooled_std when pooled_std > 0 and 0 when
\* pooled_std = 0.  Squares are compared: effect_size^2 = num / den.
C20_EffectSizeIsStandardisedDifference ==
    method = "ks_test" /\ outcome.kind = "result"
    => LET r == Clean(reference_data)
           c == Clean(current_data)
           pooled == VarN2(r) * Len(c) * Len(c) + VarN2(c) * Len(r) * Len(r)
           diff == Sum(r) * Len(c) - Sum(c) * Len(r)
           es == outcome.effect_size
       IN  /\ es.den > 0
           /\ Len(r) > 0 /\ Len(c) > 0 /\ pooled > 0
              => es.num * pooled = 2 * diff * diff * es.den
           /\ Len(r) > 0 /\ Len(c) > 0 /\ pooled = 0 => es.num = 0

\* C31: when the reference sample and the current sample (10 values or more
\* each, no NaN) have separated value ranges, detect_drift returns a result
\* with is_drift_detected true, by the two-sample test and by PSI alike.
C31_SeparatedSamplesAreDrift ==
    /\ entry = "sdk"
    /\ Len(reference_data) >= MinKsValues /\ Len(current_data) >= MinKsValues
    /\ ~HasNaN(reference_data) /\ ~HasNaN(current_data)
    /\ Separated(reference_data, current_data)
    => outcome.kind = "result" /\ outcome.is_drift_detected

(***************************************************************************)
(* MonitoringService._check_model_drift: the scheduled drift check of one  *)
(* model, on the accuracy values read from the database.                   *)
(***************************************************************************)
DriftDetection(result) == [kind |-> "DriftResult", result |-> result]

Alert(result) == [kind |-> "Alert", severity |-> "HIGH", result |-> result]

Emissions_AlertAlways(result, accepts) ==
    (IF accepts.save THEN <<DriftDetection(result)>> ELSE <<>>)
    \o (IF accepts.alert THEN <<Alert(result)>> ELSE <<>>)

\* _save_drift_result, then _create_drift_alert if drift was detected; each
\* adds its record to the database unless the database raises, which is
\* logged and goes no further.
Emissions(result, accepts) ==
    (IF accepts.save THEN <<DriftDetection(result)>> ELSE <<>>)
    \o (IF result.is_drift_detected /\ accepts.alert
        THEN <<Alert(result)>> ELSE <<>>)

Refusals(result, accepts) ==
    (IF accepts.save THEN {} ELSE {"DriftResult"})
    \cup (IF result.is_drift_detected /\ ~accepts.alert THEN {"Alert"} ELSE {})

CheckModelDrift(ks, accepts) ==
    /\ UNCHANGED otherThanDet
    /\ entry = "none"
    /\ entry' = "scheduled"
    /\ LET enough == /\ Len(reference_data) > MinBaselineRows
                     /\ Len(current_data) > MinCurrentRows
           result == DetectFeatureDrift(reference_data, current_data, "ks_test",
                                        threshold, ks)
       IN  IF enough
           THEN /\ outcome' = result
                /\ emitted' = IF result.kind = "result"
                              THEN Emissions(result, accepts) ELSE <<>>
                /\ db_errors' = IF result.kind = "result"
                                THEN Refusals(result, accepts) ELSE {}
           ELSE UNCHANGED <<outcome, emitted, db_errors>>
    /\ UNCHANGED <<reference_data, current_data, method, threshold>>

EmitInit ==
    /\ \E n \in 0..MaxSample, k \in 0..MaxNaN : reference_data = SampleOf(n, k)
    /\ \E n \in 0..MaxSample, k \in 0..MaxNaN : current_data = SampleOf(n, k)
    /\ method = "ks_test"
    /\ threshold \in Thresholds
    /\ entry = "none"
    /\ outcome = NotCalled
    /\ emitted = <<>>
    /\ db_errors = {}

EmitNext ==
    \E ks \in KsOutputs, accepts \in [save : BOOLEAN, alert : BOOLEAN] :
        CheckModelDrift(ks, accepts)

FeatureArgs == {"None", "accuracy", "latency_ms"}

\* np.array of the accuracy values of the points ms
Accuracies(ms) == [i \in 1..Len(ms) |-> ms[i].accuracy]

Returns(results) == [kind |-> "results", results |-> results]

ManualCheck_Twice(bd, h, feature_name, m, ks, psi) ==
    LET detected == DetectDrift(Accuracies(bd),
                                Accuracies(Values(LastN(h, ManualWindow))),
                                m, Alpha, ks, psi)
    IN  Returns(<<detected, detected>>)

\* AIMonitorSDK.manual_drift_check(feature_name, m) on baseline bd and history
\* h.  baseline_data has the key "accuracy" or none.
ManualCheck(bd, h, feature_name, m, ks, psi) ==
    IF bd = <<>>
    THEN Raises("ValueError: no baseline")
    ELSE IF feature_name \notin {"None", "accuracy"}
         THEN Returns(<<>>)
         ELSE LET current_values == Values(LastN(h, ManualWindow))
                  detected ==
                      DetectDrift(Accuracies(bd), Accuracies(current_values),
                                  m, Alpha, ks, psi)
              IN  IF Len(current_values) < MinManualValues
                  THEN Returns(<<>>)
                  ELSE IF detected.kind = "error"
                       THEN detected
                       ELSE Returns(<<detected>>)

ManualDriftCheck(feature_name, m, ks, psi) ==
    /\ UNCHANGED <<svcVars, sdkVars, detVars, clsVars, health>>
    /\ manual = NotCalled
    /\ manual' = ManualCheck(baseline_data, metrics_history, feature_name, m,
                             ks, psi)

\* AIMonitorSDK("model") after n earlier add_metrics calls with points stamped
\* ts, none of which built a baseline.
BaselinePriors == {[n |-> 29, ts |-> 0],
                   [n |-> 49, ts |-> 0 - BaselineWindowDays]}

BaselineInit ==
    /\ SdkNew
    /\ \E p \in BaselinePriors :
          /\ metrics_history = [i \in 1..p.n |-> ModelMetrics(i, "model", p.ts, 90)]
          /\ ingest = [prior |-> p.n, made |-> 0, returned |-> 0,
                      rejected |-> 0, last_control |-> "none"]

\* Ingestion and manual checks; the monitoring thread, which touches neither
\* the history nor the baseline, is not started.
BaselineNext ==
    \/ \E c \in Callers, ts \in StampsAt(clock), accuracy \in AccuracyInputs :
          AddMetrics(c, sdk_model_id, ts, accuracy)
    \/ \E c \in Callers : UpdateBaselineBegin(c)
    \/ \E c \in Callers : UpdateBaselineEnd(c)
    \/ \E c \in Callers, is_drift \in BOOLEAN :
          CheckRealTimeDrift(c, is_drift, FALSE)
    \/ \E c \in Callers : ExtendAlerts(c)
    \/ ClockAdvances
    \/ \E feature_name \in FeatureArgs, m \in Methods, ks \in KsOutputs,
          psi \in PsiOutputs : ManualDriftCheck(feature_name, m, ks, psi)

(***************************************************************************)
(* Claims about manual_drift_check and the baseline.                       *)
(***************************************************************************)
\* C11: a manual_drift_check made while no baseline exists, or while the
\* recent sample of the feature has fewer than 10 values, returns an empty
\* result and changes no state; it does not raise.
C11_ManualCheckSkipsQuietly ==
    [][(/\ manual = NotCalled
        /\ manual' # NotCalled
        /\ \/ baseline_data = <<>>
           \/ Len(Values(LastN(metrics_history, ManualWindow)))
                 < MinManualValues)
       => manual' = Returns(<<>>) /\ UNCHANGED sdkVars]_vars

\* The points of h inside the baseline window at time t.
InWindow(h, t) == SelectSeq(h, LAMBDA m : m.timestamp >= t - BaselineWindowDays)

\* C13: between add_metrics calls, a history of exactly min_size - 1 = 29
\* points has no baseline (NotReady), and a history with exactly min_size = 30
\* points inside the window, all with a value, has one (Ready).
C13_ReadyAtMinSize ==
    NoCallInProgress =>
        /\ Len(metrics_history) = MinBaseline - 1 => baseline_data = <<>>
        /\ Len(Values(InWindow(metrics_history, clock))) = MinBaseline
           => baseline_data # <<>>

\* C14: when an add_metrics call returns, the reference sample holds no point
\* whose timestamp is older than baseline_window_days.
C14_ReferenceIsRefreshed ==
    [][ingest'.returned > ingest.returned
       => \A i \in 1..Len(baseline_data') :
             baseline_data'[i].timestamp >= clock - BaselineWindowDays]_vars

\* C30: a manual_drift_check call changes nothing in the monitor (history,
\* baseline, active alerts, alert history; no alert is created, with which
\* the callbacks go), and what it returns holds at most one result for the
\* one feature with a baseline, computed by detect_drift from the current
\* baseline and the most recent 50 points.
C30_ManualCheckOnlyReads ==
    [][manual' # manual
       => /\ UNCHANGED <<metrics_history, baseline_data, active_alerts,
                         alert_history, calls, threads, monitoring_thread>>
          /\ manual'.kind = "results"
             => /\ Len(manual'.results) <= 1
                /\ \A i \in 1..Len(manual'.results) :
                      \E m \in Methods, ks \in KsOutputs, psi \in PsiOutputs :
                         manual'.results[i] =
                            DetectDrift(
                               Accuracies(baseline_data),
                               Accuracies(Values(LastN(metrics_history,
                                                       ManualWindow))),
                               m, Alpha, ks, psi)]_vars

\* A manual check has returned a result with drift detected and no alert was
\* ever created.
C30_Witness ==
    /\ manual.kind = "results"
    /\ Len(manual.results) = 1
    /\ manual.results[1].is_drift_detected
    /\ alert_history = <<>>
    /\ active_alerts = <<>>

(***************************************************************************)
(* Part IV: severity and alerts.                                           *)
(***************************************************************************)
ClassifySeverity_Inclusive(self, drift_score, p_value, effect_size, metric_type) ==
    LET statistical_significance == p_value <= PSignificant
        large_effect == effect_size > LargeEffect
        high_drift_score == drift_score > HighDriftScore
    IN  IF statistical_significance /\ large_effect /\ high_drift_score
        THEN "CRITICAL"
        ELSE IF \/ statistical_significance /\ large_effect
                \/ p_value < PHigh /\ high_drift_score
             THEN "HIGH"
             ELSE IF p_value < PMedium \/ drift_score > MediumDriftScore
                  THEN "MEDIUM"
                  ELSE "LOW"

ClassifySeverity_ByConfig(self, drift_score, p_value, effect_size, metric_type) ==
    IF metric_type = "accuracy"
       /\ p_value < self.alert_thresholds.accuracy.critical
    THEN "MEDIUM"
    ELSE "LOW"

\* IntelligentAlertSystem.classify_severity; self is the alert system.
ClassifySeverity(self, drift_score, p_value, effect_size, metric_type) ==
    LET statistical_significance == p_value < PSignificant
        large_effect == effect_size > LargeEffect
        high_drift_score == drift_score > HighDriftScore
    IN  IF statistical_significance /\ large_effect /\ high_drift_score
        THEN "CRITICAL"
        ELSE IF \/ statistical_significance /\ large_effect
                \/ p_value < PHigh /\ high_drift_score
             THEN "HIGH"
             ELSE IF p_value < PMedium \/ drift_score > MediumDriftScore
                  THEN "MEDIUM"
                  ELSE "LOW"

\* drift_result.get(key, default)
Get(value, default) == IF value = None THEN default ELSE value

AlertSystem == [alert_thresholds |-> alert_thresholds,
                alert_history |-> alert_history]

\* The results of a two-sample test, and those of PSI, which have neither
\* p_value nor effect_size.
DriftResults ==
    {[feature_name |-> f, drift_score |-> d, p_value |-> pv, effect_size |-> e] :
        f \in MetricTypes, d \in DriftScores, pv \in PValues, e \in EffectSizes}
    \cup
    {[feature_name |-> f, drift_score |-> d, p_value |-> None,
      effect_size |-> None] : f \in MetricTypes, d \in DriftScores}

ClsIdle ==
    /\ drift_result = [feature_name |-> "accuracy", drift_score |-> 0,
                       p_value |-> PAbsent, effect_size |-> EffectAbsent]
    /\ alert_thresholds = DefaultThresholds
    /\ made = NotCalled

ClsInit ==
    /\ drift_result \in DriftResults
    /\ alert_thresholds \in ThresholdConfigs
    /\ made = NotCalled

\* alert_system.classify_severity(drift_score, p_value, effect_size, metric_type)
Classifies(metric_type) ==
    /\ UNCHANGED <<svcVars, sdkVars, detVars, manVars>>
    /\ drift_result.p_value # None
    /\ made' = [kind |-> "severity", metric_type |-> metric_type,
                severity |-> ClassifySeverity(AlertSystem,
                                drift_result.drift_score, drift_result.p_value,
                                drift_result.effect_size, metric_type)]
    /\ UNCHANGED <<drift_result, alert_thresholds>>

\* IntelligentAlertSystem.create_alert(model_id, drift_result)
CreatesAlert ==
    /\ UNCHANGED <<svcVars, detVars, manVars>>
    /\ Len(alert_history) < MaxAlerts
    /\ made' = [kind |-> "alert", by |-> "create_alert",
                severity |-> ClassifySeverity(AlertSystem,
                                drift_result.drift_score,
                                Get(drift_result.p_value, PAbsent),
                                Get(drift_result.effect_size, EffectAbsent),
                                drift_result.feature_name),
                metadata |-> drift_result]
    /\ alert_history' =
          Append(alert_history, DriftAlert(Len(alert_history) + 1, clock))
    /\ UNCHANGED <<drift_result, alert_thresholds>>
    /\ UNCHANGED <<sdk_model_id, metrics_history, baseline_data, active_alerts,
                   monitoring_thread, threads, stop_event, calls, control,
                   clock, ingest>>

\* MonitoringService._create_drift_alert(model_id, drift_result), for a
\* DriftResult of the engine, which has a p_value and an effect_size.
CreatesDriftAlert ==
    /\ UNCHANGED <<svcVars, sdkVars, detVars, manVars>>
    /\ drift_result.p_value # None
    /\ made' = [kind |-> "alert", by |-> "_create_drift_alert",
                severity |-> "HIGH", metadata |-> drift_result]
    /\ UNCHANGED <<drift_result, alert_thresholds>>

ClsNext ==
    \/ \E metric_type \in MetricTypes : Classifies(metric_type)
    \/ CreatesAlert
    \/ CreatesDriftAlert

(***************************************************************************)
(* Claims about severity and alerts.                                       *)
(***************************************************************************)
\* C15: the tier classify_severity returns for (drift_score, p_value,
\* effect_size) is CRITICAL iff p < 0.001, effect > 0.8 and score > 0.3;
\* otherwise HIGH iff (p < 0.001 and effect > 0.8) or (p < 0.01 and score >
\* 0.3); otherwise MEDIUM iff p < 0.05 or score > 0.2; otherwise LOW.  All
\* comparisons are strict.
C15_SeverityPolicy ==
    made.kind = "severity" =>
        LET pv == drift_result.p_value
            e == drift_result.effect_size
            d == drift_result.drift_score
            critical == pv < 1 /\ e > 800 /\ d > 300
            high == (pv < 1 /\ e > 800) \/ (pv < 10 /\ d > 300)
            medium == pv < 50 \/ d > 200
        IN  /\ made.severity = "CRITICAL" <=> critical
            /\ made.severity = "HIGH" <=> ~critical /\ high
            /\ made.severity = "MEDIUM" <=> ~critical /\ ~high /\ medium
            /\ made.severity = "LOW" <=> ~critical /\ ~high /\ ~medium

\* A result with p_value exactly 0.001, a large effect and a high score has
\* been classified, and is HIGH, not CRITICAL.
C15_Witness ==
    /\ made.kind = "severity"
    /\ drift_result.p_value = 1
    /\ drift_result.effect_size > 800
    /\ drift_result.drift_score > 300
    /\ made.severity = "HIGH"

\* C16: the tier classify_severity returns is the one it returns for the same
\* triple with metric_type "accuracy", the default alert_thresholds and an
\* empty alert_history, and the call changes no state.
C16_SeverityDependsOnTripleOnly ==
    /\ [](made.kind = "severity" =>
             made.severity =
                ClassifySeverity([alert_thresholds |-> DefaultThresholds,
                                  alert_history |-> <<>>],
                                 drift_result.drift_score, drift_result.p_value,
                                 drift_result.effect_size, "accuracy"))
    /\ [][made'.kind = "severity"
          => UNCHANGED <<svcVars, sdkVars, detVars, manVars, drift_result,
                         alert_thresholds>>]_vars

\* A result has been classified for metric_type "latency" by an alert system
\* with other thresholds than the default and an alert in its history.
C16_Witness ==
    /\ made.kind = "severity"
    /\ made.metric_type = "latency"
    /\ alert_thresholds # DefaultThresholds
    /\ alert_history # <<>>

\* C17: an alert made from a drift result that has a p_value and an
\* effect_size carries the severity classify_severity gives that result,
\* whether create_alert or _create_drift_alert made it.
C17_AlertCarriesClassifiedSeverity ==
    made.kind = "alert" /\ made.metadata.p_value # None
    => made.severity =
          ClassifySeverity(AlertSystem, made.metadata.drift_score,
                           made.metadata.p_value, made.metadata.effect_size,
                           made.metadata.feature_name)

(***************************************************************************)
(* Part V: AIMonitorSDK.get_model_health_score.                            *)
(***************************************************************************)
MetricsPoint(t, accuracy, error_rate, latency_ms) ==
    [timestamp |-> t, accuracy |-> accuracy, error_rate |-> error_rate,
     latency_ms |-> latency_ms]

\* [m.f for m in ms if m.f is not None]
Observed(ms, f) ==
    SelectSeq([i \in 1..Len(ms) |-> ms[i][f]], LAMBDA x : x # None)

\* The builtins max(a, b) and min(a, b): b is returned only if b > a (b < a),
\* which is False when b is nan.
PyMax(a, b) == IF b # NaN /\ b > a THEN b ELSE a

PyMin(a, b) == IF b # NaN /\ b < a THEN b ELSE a

\* The integer part of the square root of x, a digit in base 2 at a time.
RECURSIVE ISqrt(_)
ISqrt(x) ==
    IF x < 2 THEN x
    ELSE LET r == 2 * ISqrt(x \div 4)
         IN  IF (r + 1) * (r + 1) <= x THEN r + 1 ELSE r

Clamp_Off(x) == x

\* max(0, min(100, x))
Clamp(x) == PyMax(0, PyMin(FullScore, x))

\* 100 - np.std(accuracies) * 100
AccuracyStability(a) ==
    IF HasNaN(a) THEN NaN
    ELSE FullScore - (ISqrt(10000 * VarN2(a)) \div Len(a))

\* max(0, 100 - np.mean(error_rates) * 1000)
ErrorHealth(e) ==
    PyMax(0, IF HasNaN(e) THEN NaN ELSE FullScore - ((100 * Sum(e)) \div Len(e)))

\* max(0, 100 - np.mean(latencies) / 10)
LatencyHealth(l) ==
    PyMax(0, IF HasNaN(l) THEN NaN ELSE FullScore - ((100 * Sum(l)) \div Len(l)))

HealthFactors_ZeroForMissing(recent_metrics) ==
    LET accuracies == Observed(recent_metrics, "accuracy")
        error_rates == Observed(recent_metrics, "error_rate")
        latencies == Observed(recent_metrics, "latency_ms")
    IN  <<IF accuracies # <<>> THEN Clamp(AccuracyStability(accuracies)) ELSE 0,
          IF error_rates # <<>> THEN Clamp(ErrorHealth(error_rates)) ELSE 0,
          IF latencies # <<>> THEN Clamp(LatencyHealth(latencies)) ELSE 0>>

HealthFactors(recent_metrics) ==
    LET accuracies == Observed(recent_metrics, "accuracy")
        error_rates == Observed(recent_metrics, "error_rate")
        latencies == Observed(recent_metrics, "latency_ms")
    IN  (IF accuracies # <<>>
         THEN <<Clamp(AccuracyStability(accuracies))>> ELSE <<>>)
        \o (IF error_rates # <<>>
            THEN <<Clamp(ErrorHealth(error_rates))>> ELSE <<>>)
        \o (IF latencies # <<>>
            THEN <<Clamp(LatencyHealth(latencies))>> ELSE <<>>)

RecentAlerts_All(alerts, t) == alerts

\* [a for a in self.active_alerts if (datetime.utcnow() - a.timestamp).days < 1]
RecentAlerts(alerts, t) ==
    SelectSeq(alerts, LAMBDA a : t - a.timestamp < AlertDays)

\* The score computed from the health factors of the recent points.
FinalScore(recent_metrics, alerts, t) ==
    LET health_factors == HealthFactors(recent_metrics)
        alert_penalty == Len(RecentAlerts(alerts, t)) * AlertPenalty
        base_score == Sum(health_factors) \div Len(health_factors)
    IN  PyMax(0, base_score - alert_penalty)

HealthScore_PerCall(h, alerts, t) ==
    IF health.kind = "score" /\ health.value > 0 THEN health.value - 1
    ELSE NeutralScore

HealthScore(h, alerts, t) ==
    IF Len(h) < HealthMinHistory THEN NeutralScore
    ELSE LET recent_metrics == LastN(h, HealthWindow)
         IN  IF HealthFactors(recent_metrics) # <<>>
             THEN FinalScore(recent_metrics, alerts, t)
             ELSE NeutralScore

Scored(value, t) == [kind |-> "score", value |-> value, at |-> t]

GetModelHealthScore ==
    /\ UNCHANGED <<svcVars, sdkVars, detVars, clsVars, manual>>
    /\ health' = Scored(HealthScore(metrics_history, active_alerts, clock), clock)

HealthPoints ==
    {MetricsPoint(0, a, e, l) :
        a \in HealthAccuracies, e \in HealthErrorRates, l \in HealthLatencies}

\* The points of the earlier calls: none with a feature, all perfect, or all
\* poor.
HealthPriorPoints ==
    {MetricsPoint(HealthEpoch, None, None, None),
     MetricsPoint(HealthEpoch, 90, 0, 0),
     MetricsPoint(HealthEpoch, 89, 200, 95)}

\* The lists of alerts raised two days ago and today, in order.
HealthAlerts ==
    {alerts \in UNION {[1..n -> {DriftAlert(i, t) : i \in 1..MaxAlerts,
                                                  t \in {HealthEpoch, 0}}] :
                       n \in 0..MaxAlerts} :
        /\ \A i \in 1..Len(alerts) : alerts[i].id = i
        /\ \A i \in 1..(Len(alerts) - 1) :
              alerts[i].timestamp <= alerts[i + 1].timestamp}

\* AIMonitorSDK("model") after n add_metrics calls two days ago with the same
\* point and k calls today with another; alerts were raised only once the
\* history held 50 points and a baseline of accuracies.
HealthInit ==
    /\ \E p \in HealthPriorPoints, q \in HealthPoints,
          n \in HealthPriorLens, k \in HealthLastLens :
          /\ metrics_history = [i \in 1..(n + k) |-> IF i <= n THEN p ELSE q]
          /\ ingest = [prior |-> n + k, made |-> 0, returned |-> 0,
                      rejected |-> 0, last_control |-> "none"]
          /\ baseline_data = IF n + k < MinHistory THEN <<>>
                             ELSE UpdateBaseline(<<>>, metrics_history, 0)
          /\ active_alerts \in HealthAlerts
          /\ active_alerts # <<>> => n >= MinHistory /\ p.accuracy # None
    /\ alert_history = active_alerts
    /\ sdk_model_id = "model"
    /\ monitoring_thread = NoThread
    /\ threads = [t \in 1..MaxThreads |-> NewThread]
    /\ stop_event = FALSE
    /\ calls = [c \in Callers |-> IdleAdd]
    /\ control = "idle"
    /\ clock = 0

HealthNext ==
    \/ GetModelHealthScore
    \/ ClockAdvances

(***************************************************************************)
(* Claims about the health score.                                          *)
(***************************************************************************)
\* The recent points of the state and the alerts younger than a day when the
\* last score was returned.
RecentPoints == LastN(metrics_history, HealthWindow)

YoungAlerts ==
    {i \in 1..Len(active_alerts) :
        health.at - active_alerts[i].timestamp < AlertDays}

\* C21: get_model_health_score always returns a defined value between 0 and
\* 100, whatever the history and the active alerts.
C21_ScoreIsInRange ==
    health # NotCalled
    => health.kind = "score" /\ health.value \in 0..FullScore

\* A score was computed from recent points holding a NaN accuracy and a
\* negative latency while an alert was less than a day old.
C21_Witness ==
    /\ health.kind = "score"
    /\ Len(metrics_history) >= HealthMinHistory
    /\ HasNaN(Observed(RecentPoints, "accuracy"))
    /\ \E i \in 1..Len(RecentPoints) : RecentPoints[i].latency_ms < NaN
    /\ YoungAlerts # {}

\* C22: the score is the neutral 50.0 when no feature has the minimum number
\* of observations (10) among the recent points, and is computed from the
\* sub-scores when some feature has.
C22_NeutralIffNothingComputable ==
    health.kind = "score"
    => LET enough ==
               {f \in {"accuracy", "error_rate", "latency_ms"} :
                   Len(Observed(RecentPoints, f)) >= HealthMinHistory}
       IN  /\ enough = {} => health.value = NeutralScore
           /\ enough # {}
              => health.value = FinalScore(RecentPoints, active_alerts, health.at)

\* C23: when a base score is computable the score is max(0, base - 10 k), k
\* being the number of active alerts less than 24 hours old.
C23_PenaltyPerYoungAlert ==
    /\ health.kind = "score"
    /\ Len(metrics_history) >= HealthMinHistory
    /\ HealthFactors(RecentPoints) # <<>>
    => LET base_score ==
               Sum(HealthFactors(RecentPoints)) \div Len(HealthFactors(RecentPoints))
           k == Cardinality(YoungAlerts)
       IN  health.value = IF base_score - 10 * 100 * k > 0
                          THEN base_score - 10 * 100 * k ELSE 0

\* A score above 0 was computed while one alert was less than a day old and
\* another was older.
C23_Witness ==
    /\ health.kind = "score"
    /\ Len(metrics_history) >= HealthMinHistory
    /\ HealthFactors(RecentPoints) # <<>>
    /\ Cardinality(YoungAlerts) = 1
    /\ Len(active_alerts) = 2
    /\ health.value > 0

\* C24: with no alert to penalise, a computed score is the mean of the
\* sub-scores of the features observed among the last 20 points, each between
\* 0 and 100; it is 100 when the accuracies are all equal and the error rates
\* and the latencies all 0.
C24_MeanOfObservedSubScores ==
    /\ health.kind = "score"
    /\ Len(metrics_history) >= HealthMinHistory
    /\ YoungAlerts = {}
    => LET a == Observed(RecentPoints, "accuracy")
           e == Observed(RecentPoints, "error_rate")
           l == Observed(RecentPoints, "latency_ms")
           sa == IF a = <<>> THEN 0 ELSE Clamp(AccuracyStability(a))
           se == IF e = <<>> THEN 0 ELSE Clamp(ErrorHealth(e))
           sl == IF l = <<>> THEN 0 ELSE Clamp(LatencyHealth(l))
           observed == (IF a = <<>> THEN 0 ELSE 1) + (IF e = <<>> THEN 0 ELSE 1)
                       + (IF l = <<>> THEN 0 ELSE 1)
       IN  /\ {sa, se, sl} \subseteq 0..FullScore
           /\ observed > 0 => health.value = (sa + se + sl) \div observed
           /\ /\ a # <<>> /\ \A i \in 1..Len(a) : a[i] = a[1] /\ a[i] # NaN
              /\ e # <<>> /\ \A i \in 1..Len(e) : e[i] = 0
              /\ l # <<>> /\ \A i \in 1..Len(l) : l[i] = 0
              => health.value = FullScore

\* A score below 100 was computed from recent points with accuracies and
\* latencies but no error rate.
C24_Witness ==
    /\ health.kind = "score"
    /\ Len(metrics_history) >= HealthMinHistory
    /\ YoungAlerts = {}
    /\ Observed(RecentPoints, "error_rate") = <<>>
    /\ Observed(RecentPoints, "latency_ms") # <<>>
    /\ Observed(RecentPoints, "accuracy") # <<>>
    /\ health.value \in 1..(FullScore - 1)

\* C25: a call of get_model_health_score leaves the history, the baseline,
\* the active alerts and the alert history as they are, and a call made at
\* the time of the previous one, in the state of the previous one, returns
\* the same value (in this specification only the clock changes between two
\* calls).
C25_ScoreIsDerived ==
    [][/\ health' # health
          => UNCHANGED <<metrics_history, baseline_data, active_alerts,
                         alert_history>>
       /\ health.kind = "score" /\ health.at = clock /\ clock' = clock
          => health' = health]_vars

\* A score that is neither 0, the neutral value nor 100 has been returned at
\* the present time with alerts active: a further call is a call in the same
\* state at the same time.
C25_Witness ==
    /\ health.kind = "score"
    /\ health.at = clock
    /\ health.value \notin {0, NeutralScore, FullScore}
    /\ active_alerts # <<>>

(***************************************************************************)
(* The real-time path of one feature: _check_real_time_drift calls         *)
(* detect_drift with its default method and threshold on the reference     *)
(* sample and the recent values, and create_alert on a result that says    *)
(* drift.                                                                  *)
(***************************************************************************)
\* The effect size sqrt(num / den) in thousandths: its hundredths, rounded
\* down, kept on the effect size's own side of 0.8 (16 / 25 when squared),
\* the one value an effect size is compared with.
EffectThousandths(es) ==
    LET squared == (es.num \div es.den) * 10000
                   + ((es.num % es.den) * 10000) \div es.den
        rounded == ISqrt(squared) * 10
    IN  IF 25 * es.num > 16 * es.den
        THEN (IF rounded > LargeEffect THEN rounded ELSE LargeEffect + 1)
        ELSE (IF rounded > LargeEffect THEN LargeEffect ELSE rounded)

\* The dict detect_drift returns for the two-sample test, in thousandths.
AsDriftResult(feature_name, result) ==
    [feature_name |-> feature_name,
     drift_score |-> result.drift_score * 10,
     p_value |-> result.p_value * 10,
     effect_size |-> EffectThousandths(result.effect_size)]

ShouldAlert_Always(result) == TRUE

\* if drift_result["is_drift_detected"]
ShouldAlert(result) == result.is_drift_detected

\* A DriftAlert with the severity create_alert gave it.
SevereAlert(n, t, severity) == [id |-> n, timestamp |-> t, severity |-> severity]

\* A baseline of at least 10 accuracies and at least 5 recent accuracies, of
\* the same shape and moved by an offset.
RealTimeInit ==
    /\ \E n \in MinFeatureValues..MaxSample, w \in ShiftWidths :
          reference_data = Ramp(n, ShiftBase, w)
    /\ \E n \in MinCurrent..MaxSample, w \in ShiftWidths, d \in ShiftOffsets :
          current_data = Shifted(Ramp(n, ShiftBase, w), d)
    /\ method = "ks_test"
    /\ threshold = Alpha
    /\ entry = "none"
    /\ outcome = NotCalled
    /\ emitted = <<>>
    /\ db_errors = {}

\* The body of the for statement of _check_real_time_drift for the feature
\* "accuracy", and the extension of active_alerts that follows the loop.
RealTimeCheck(ks) ==
    /\ UNCHANGED <<svcVars, manVars>>
    /\ outcome = NotCalled
    /\ LET result == DetectDrift(reference_data, current_data, "ks_test", Alpha,
                                 ks, 0)
           dr == AsDriftResult("accuracy", result)
           severity == ClassifySeverity(AlertSystem, dr.drift_score,
                                        Get(dr.p_value, PAbsent),
                                        Get(dr.effect_size, EffectAbsent),
                                        dr.feature_name)
           alert == SevereAlert(Len(alert_history) + 1, clock, severity)
       IN  /\ outcome' = result
           /\ entry' = "sdk"
           /\ IF ShouldAlert(result)
              THEN /\ drift_result' = dr
                   /\ made' = [kind |-> "alert", by |-> "create_alert",
                               severity |-> severity, metadata |-> dr]
                   /\ alert_history' = Append(alert_history, alert)
                   /\ active_alerts' = Append(active_alerts, alert)
              ELSE UNCHANGED <<drift_result, made, alert_history, active_alerts>>
    /\ UNCHANGED <<reference_data, current_data, method, threshold, emitted,
                   db_errors, alert_thresholds>>
    /\ UNCHANGED <<sdk_model_id, metrics_history, baseline_data,
                   monitoring_thread, threads, stop_event, calls, control,
                   clock, ingest>>

\* C37: every alert the real-time path has put into active_alerts has
\* severity MEDIUM, HIGH or CRITICAL, never LOW; it was made from a result
\* with is_drift_detected at the threshold 0.05, whose p_value is below 0.05.
C37_RealTimeAlertIsNeverLow ==
    /\ \A i \in 1..Len(active_alerts) :
          active_alerts[i].severity \in {"MEDIUM", "HIGH", "CRITICAL"}
    /\ active_alerts # <<>>
       => /\ outcome.is_drift_detected
          /\ outcome.p_value < Alpha
          /\ made.severity = active_alerts[Len(active_alerts)].severity

\* An alert is active that was made from samples with overlapping ranges: its
\* p_value is 0.01 and its severity MEDIUM.
C37_Witness ==
    /\ Len(active_alerts) = 1
    /\ active_alerts[1].severity = "MEDIUM"
    /\ ~Separated(reference_data, current_data)
    /\ made.metadata.p_value = 10

(***************************************************************************)
(* Specifications.                                                         *)
(***************************************************************************)
SdkFresh ==
    /\ SdkNew
    /\ metrics_history = <<>>
    /\ ingest = [prior |-> 0, made |-> 0, returned |-> 0,
                      rejected |-> 0, last_control |-> "none"]

ManIdle == manual = NotCalled /\ health = NotCalled

Init == SvcInit /\ SdkFresh /\ DetIdle /\ ManIdle /\ ClsIdle

Next == SvcNext

Spec == Init /\ [][Next]_vars

InitRetry == Init

\* The service while models are started and none is stopped: the loop ticks.
NextRetry ==
    \/ \E m \in Models, a \in StartArgs : StartMonitoring(m, a[1], a[2])
    \/ \E t \in 1..MaxTasks, fates \in [Models -> Fates] : LoopStepWatched(t, fates)
    \/ Advance

SpecRetry == InitRetry /\ [][NextRetry]_vars

InitHang == Init

NextHang ==
    \/ SvcNext
    \/ \E t \in 1..MaxTasks, fates \in [Models -> Fates],
          k \in 1..Cardinality(Models), where \in {"drift", "perf"} :
          LoopHangs(t, fates, k, where)

\* The event loop runs every coroutine that can run, and time passes.
SpecHang ==
    /\ InitHang /\ [][NextHang]_vars
    /\ WF_vars(\E t \in 1..MaxTasks, fates \in [Models -> Fates] :
                  LoopStep(t, fates))
    /\ WF_vars(\E t \in 1..MaxTasks : LoopCancelled(t))
    /\ WF_vars(\E t \in 1..MaxCeTasks : CollectionCancelled(t))
    /\ WF_vars(\E c \in Stoppers : StopAfterLoopTask(c))
    /\ WF_vars(\E c \in Stoppers : StopAfterCollectionTask(c))
    /\ WF_vars(Advance)

InitSdk == SvcInit /\ SdkInit /\ DetIdle /\ ManIdle /\ ClsIdle

NextSdk == SdkNext

SpecSdk == InitSdk /\ [][NextSdk]_vars

InitIngest == InitSdk

NextIngest == IngestNext

SpecIngest == InitIngest /\ [][NextIngest]_vars

\* The control calls of the monitor and its loop, with the history of the
\* control calls kept.
InitControl == InitSdk

NextControl ==
    \/ StartRealTimeMonitoringWatched
    \/ StopRealTimeMonitoringWatched
    \/ JoinReturns
    \/ \E t \in 1..MaxThreads : LoopWakes(t)
    \/ \E t \in 1..MaxThreads : LoopStores(t)
    \/ ClockAdvances

SpecControl == InitControl /\ [][NextControl]_vars

InitDetect == SvcInit /\ SdkFresh /\ DetInit /\ ManIdle /\ ClsIdle

NextDetect == DetNext

SpecDetect == InitDetect /\ [][NextDetect]_vars

InitEffect == SvcInit /\ SdkFresh /\ EffectInit /\ ManIdle /\ ClsIdle

NextEffect == DetNext

SpecEffect == InitEffect /\ [][NextEffect]_vars

InitShift ==
    SvcInit /\ SdkFresh /\ ShiftInit /\ ManIdle /\ ClsIdle

NextShift == \E ks \in KsOutputs, psi \in PsiOutputs : SdkDetects(ks, psi)

SpecShift == InitShift /\ [][NextShift]_vars

InitRealTime ==
    /\ SvcInit /\ SdkFresh /\ RealTimeInit /\ ManIdle
    /\ drift_result = [feature_name |-> "accuracy", drift_score |-> 0,
                       p_value |-> PAbsent, effect_size |-> EffectAbsent]
    /\ alert_thresholds \in ThresholdConfigs
    /\ made = NotCalled

NextRealTime == \E ks \in KsOutputs : RealTimeCheck(ks)

SpecRealTime == InitRealTime /\ [][NextRealTime]_vars

InitEmit == SvcInit /\ SdkFresh /\ EmitInit /\ ManIdle /\ ClsIdle

NextEmit == EmitNext

SpecEmit == InitEmit /\ [][NextEmit]_vars

InitBaseline == SvcInit /\ BaselineInit /\ DetIdle /\ ManIdle /\ ClsIdle

NextBaseline == BaselineNext

SpecBaseline == InitBaseline /\ [][NextBaseline]_vars

InitHealth == SvcInit /\ HealthInit /\ DetIdle /\ ManIdle /\ ClsIdle

NextHealth == HealthNext

SpecHealth == InitHealth /\ [][NextHealth]_vars

InitClassify ==
    /\ SvcInit /\ DetIdle /\ ManIdle /\ ClsInit
    /\ SdkNew
    /\ metrics_history = <<>>
    /\ ingest = [prior |-> 0, made |-> 0, returned |-> 0,
                      rejected |-> 0, last_control |-> "none"]

NextClassify == ClsNext

SpecClassify == InitClassify /\ [][NextClassify]_vars

====
